---- MODULE Spec2Model ----
(***************************************************************************)
(* Lending ledger: customers, loans and payments.  The model follows the   *)
(* controllers (createLoan, updateLoan, closeLoan, createPayment,          *)
(* updatePayment, deletePayment, createCustomer, updateCustomer,           *)
(* deleteCustomer) and the Loan model methods (calculateInterest,          *)
(* updateOutstanding).                                                     *)
(*                                                                         *)
(* Time is counted in hours since an epoch T0 that is a local midnight.    *)
(* Money is an integer; the rates and dates drawn below keep every         *)
(* interest computation exact (see ExactInterest and ExactArith), so the   *)
(* integer arithmetic of the model agrees with the floating point          *)
(* arithmetic of the code on the same inputs.  Where the code's result is  *)
(* no integer, or may be rounded, calculateInterest is NotExact.           *)
(*                                                                         *)
(* Every handler is an async function and is modelled await by await: one  *)
(* action for each await, so that the steps of the handlers of different   *)
(* requests interleave.  Spec runs the handlers of up to MaxRequests       *)
(* requests to createLoan, closeLoan, createPayment and deletePayment      *)
(* together.  SpecSerial is Spec with each request arriving when the one   *)
(* before it has been answered.  SpecFailures is SpecSerial with saves of  *)
(* createPayment that the database may reject.  SpecApi adds the routes    *)
(* that write a document directly (createCustomer, updateCustomer,         *)
(* deleteCustomer, updateLoan, updatePayment) and runs MaxRequests requests*)
(* together from each of a few databases.  SpecIds and SpecInterest apply  *)
(* the identifier helpers and calculateInterest to drawn arguments.        *)
(***************************************************************************)
EXTENDS Integers, Sequences, FiniteSets, TLC

\* ---------------------------------------------------------------- bounds
MaxLoans    == 1      \* createLoan is requested while fewer loans than this exist
MaxPayments == 2      \* payments created in a run (deleted ones included)
MaxSteps    == 1      \* clock advances in a run
MaxRequests == 2      \* requests whose handlers run together
MaxAsOf     == 4      \* as-of dates of an interest calculation, in half clock steps
MaxCustomers == 1     \* customers created in a run (deleted ones included)

\* ------------------------------------------------------------- constants
HoursPerDay  == 24
DaysPerMonth == 30
PercentBase  == 100
TimeStep     == (HoursPerDay * DaysPerMonth) \div 4   \* one clock advance: 7.5 days
NoDate       == 0 - 1    \* an unset Date field (closedDate, lastPaymentDate)

\* Customer _ids, in order of creation
Customers == 1..MaxCustomers
\* the phone numbers of the bodies of createCustomer; the last is empty after
\* the schema's trim
Phones == { <<"9", "0", "0", "0", "0", "0", "0", "0", "0", "1">>,
            <<"9", "0", "0", "0", "0", "0", "0", "0", "0", "2">>,
            <<" ", "\t">> }
\* the names of the bodies of createCustomer; a body without a name fails the
\* same validator as the empty name
Names == { <<"N">>, << >> }
Principals == {10}
\* interestType and interestRate of the loans created
LoanTerms == {<<"daily", 100>>, <<"monthly", 400>>, <<"weekly", 5>>}
Times == {k * TimeStep : k \in 0..MaxSteps}
DisbursementDates == {0}
DueDates == {TimeStep}
Amounts == {-5, 0, 5, 25}
LoanIds == 1..MaxLoans
PaymentIds == 1..MaxPayments

VARIABLES
    customers,   \* Customer collection in creation order: sequence of documents
                 \* (stored = FALSE: the document has been deleted)
    loans,       \* Loan collection in creation order: sequence of documents
    payments,    \* Payment collection: _id -> document
    nextPid,     \* next Payment _id
    now,         \* the clock read by new Date()
    res,         \* the last response sent: the route and the HTTP status
    requests,    \* the requests received, in order of arrival: each holds its
                 \* inputs, the await its handler has reached (pc), the handler's
                 \* copies of the documents it has read and, once answered, the
                 \* HTTP status (code)
    before       \* history: the collections as they were when the first request
                 \* of requests arrived

vars == <<customers, loans, payments, nextPid, now, res, requests, before>>

Min(a, b) == IF a < b THEN a ELSE b
Max(a, b) == IF a > b THEN a ELSE b

\* calendar day of a time
DayOf(t) == t \div HoursPerDay

\* The amounts of the model are integers, where the code computes in floating
\* point.  NotExact stands for a result of calculateInterest that is no
\* integer, or that floating point may round.
NotExact == "not exact"

\* calculateInterest computes an integer and rounds nowhere.  daily: days is a
\* whole number, the product is an integer and 100 divides it.  monthly:
\* months = timeDiff / (30 days) is held exactly only when it is a binary
\* fraction, that is a multiple of 1/16 (30 days = 16 * 45 hours); the product
\* is then exact, and 100 divides it
ExactInterest(loan, asOfDate) ==
    LET endDate  == IF asOfDate > loan.dueDate THEN loan.dueDate ELSE asOfDate
        timeDiff == endDate - loan.disbursementDate
    IN  endDate > loan.disbursementDate =>
          IF loan.interestType = "daily"
          THEN (loan.outstandingPrincipal * loan.interestRate
                    * (timeDiff \div HoursPerDay)) % PercentBase = 0
          ELSE /\ (16 * timeDiff) % (HoursPerDay * DaysPerMonth) = 0
               /\ (loan.outstandingPrincipal * loan.interestRate * timeDiff)
                    % (HoursPerDay * DaysPerMonth * PercentBase) = 0

\* calculateInterest without the cap at dueDate
calculateInterestUncapped(loan, asOfDate) ==
    IF asOfDate <= loan.disbursementDate THEN 0
    ELSE IF loan.interestType = "daily"
    THEN (loan.outstandingPrincipal * loan.interestRate
             * ((asOfDate - loan.disbursementDate) \div HoursPerDay)) \div PercentBase
    ELSE (loan.outstandingPrincipal * loan.interestRate
             * (asOfDate - loan.disbursementDate))
             \div (HoursPerDay * DaysPerMonth * PercentBase)

\* loanSchema.methods.calculateInterest
calculateInterest(loan, asOfDate) ==
    LET startDate == loan.disbursementDate
        endDate   == IF asOfDate > loan.dueDate THEN loan.dueDate ELSE asOfDate
    IN  IF endDate <= startDate THEN 0
        ELSE IF ~ExactInterest(loan, asOfDate) THEN NotExact
        ELSE LET timeDiff == endDate - startDate
             IN  IF loan.interestType = "daily"
                 THEN LET days == timeDiff \div HoursPerDay
                      IN  (loan.outstandingPrincipal * loan.interestRate * days)
                              \div PercentBase
                 ELSE \* months = timeDiff / (HoursPerDay * DaysPerMonth)
                      (loan.outstandingPrincipal * loan.interestRate * timeDiff)
                          \div (HoursPerDay * DaysPerMonth * PercentBase)

\* loanSchema.methods.updateOutstanding, called at time t
updateOutstanding(loan, t) ==
    LET l1 == [loan EXCEPT !.outstandingPrincipal =
                               loan.principalAmount - loan.totalAmountPaid]
        l2 == [l1 EXCEPT !.outstandingInterest =
                               calculateInterest(l1, t) - l1.totalInterestEarned]
    IN  [l2 EXCEPT !.profitLoss = l2.totalInterestEarned -
                       (IF l2.status = "written-off" THEN l2.outstandingPrincipal ELSE 0)]

\* interest-first allocation of createPayment
TotalOutstandingInterest(loan, paymentDate) ==
    calculateInterest(loan, paymentDate) - loan.totalInterestEarned

InterestPaid(loan, amount, paymentDate) ==
    LET owed == TotalOutstandingInterest(loan, paymentDate)
    IN  IF owed > 0 THEN Min(amount, owed) ELSE 0

PrincipalPaid(loan, amount, paymentDate) ==
    LET remainingAmount == amount - InterestPaid(loan, amount, paymentDate)
    IN  IF remainingAmount > 0 THEN Min(remainingAmount, loan.outstandingPrincipal) ELSE 0

\* mutant of FullyPaid: strict comparisons, a balance of exactly 0 does not close
FullyPaidStrict(loan) == loan.outstandingPrincipal < 0 /\ loan.outstandingInterest < 0

\* createPayment: "Check if loan is fully paid"
FullyPaid(loan) == loan.outstandingPrincipal <= 0 /\ loan.outstandingInterest <= 0

\* mutant of PaymentRefused: the status check is missing
PaymentNeverRefused(loan) == FALSE

\* createPayment: a closed loan takes no payment
PaymentRefused(loan) == loan.status = "closed"

\* paymentSchema.amount: min 0
AmountValid(amount) == amount >= 0

\* mutant of CloseRefused: the outstanding principal is not checked
CloseRefusedStatusOnly(loan) == loan.status = "closed"

\* closeLoan: the two rejections
CloseRefused(loan) == loan.status = "closed" \/ loan.outstandingPrincipal > 0

\* mutant of DecrementActive: the counter is left as it is
DecrementActiveSkipped(n) == n

\* customer.activeLoans = Math.max(0, customer.activeLoans - 1)
DecrementActive(n) == Max(0, n - 1)

\* mutant of IncrementActive: the reopening counts down
IncrementActiveDown(n) == n - 1

\* deletePayment: customer.activeLoans += 1
IncrementActive(n) == n + 1

\* mutant of RepaidAfterSave: the second customer update is unconditional
RepaidAfterSaveAlways(status) == TRUE

\* createPayment: the customer update after loan.save() is skipped for a closed loan
RepaidAfterSave(status) == status # "closed"

\* Text is a sequence of characters.
DecimalDigits == <<"0", "1", "2", "3", "4", "5", "6", "7", "8", "9">>
LowerCase == <<"a", "b", "c", "d", "e", "f", "g", "h", "i", "j", "k", "l", "m",
               "n", "o", "p", "q", "r", "s", "t", "u", "v", "w", "x", "y", "z">>
UpperCase == <<"A", "B", "C", "D", "E", "F", "G", "H", "I", "J", "K", "L", "M",
               "N", "O", "P", "Q", "R", "S", "T", "U", "V", "W", "X", "Y", "Z">>

\* String(n): the decimal digits of an integer
RECURSIVE String(_)
String(n) ==
    IF n < 0 THEN <<"-">> \o String(0 - n)
    ELSE IF n < 10 THEN <<DecimalDigits[n + 1]>>
    ELSE String(n \div 10) \o <<DecimalDigits[(n % 10) + 1]>>

\* s.padStart(targetLength, padString), padString one character: a text that is
\* long enough already is returned whole
RECURSIVE padStart(_, _, _)
padStart(s, targetLength, padString) ==
    IF Len(s) >= targetLength THEN s
    ELSE padStart(<<padString>> \o s, targetLength, padString)

\* s.toUpperCase()
toUpperCase(s) ==
    [i \in 1..Len(s) |->
        IF \E k \in 1..Len(LowerCase) : LowerCase[k] = s[i]
        THEN UpperCase[CHOOSE k \in 1..Len(LowerCase) : LowerCase[k] = s[i]]
        ELSE s[i]]

\* generateLoanId
generateLoanId(sequenceNumber, customerNumber, customerLoanNumber, loanType) ==
    LET seq     == padStart(String(sequenceNumber), 3, "0")
        cusNum  == padStart(String(customerNumber), 3, "0")
        loanNum == padStart(String(customerLoanNumber), 2, "0")
        type    == toUpperCase(loanType)
    IN  <<"0", "0", "-">> \o seq \o <<"-">> \o cusNum \o <<"-">> \o loanNum
            \o <<"-">> \o type

\* generateCustomerId
generateCustomerId(sequenceNumber) ==
    <<"C", "U", "S", "-">> \o padStart(String(sequenceNumber), 5, "0")

\* s.indexOf(ch, from), counted from 1; 0 when ch does not occur
RECURSIVE indexOf(_, _, _)
indexOf(s, ch, from) ==
    IF from > Len(s) THEN 0
    ELSE IF s[from] = ch THEN from
    ELSE indexOf(s, ch, from + 1)

\* customerId.split('-')[1] || '1'
customerNumberRaw(customerId) ==
    LET first == indexOf(customerId, "-", 1)
        next  == indexOf(customerId, "-", first + 1)
        part  == IF first = 0 THEN << >>
                 ELSE SubSeq(customerId, first + 1,
                             IF next = 0 THEN Len(customerId) ELSE next - 1)
    IN  IF part = << >> THEN <<"1">> ELSE part

\* the characters JavaScript counts as white space (WhiteSpace and
\* LineTerminator): parseInt skips them before the number and
\* String.prototype.trim removes them at both ends.  A character that has no
\* TLA+ notation is written as its JavaScript escape: the vertical tab, the
\* no-break space, the spaces of Unicode category Zs, the line and paragraph
\* separators and the byte order mark
WhiteSpace ==
    { " ", "\t", "\n", "\f", "\r", "\\v", "\\u00A0", "\\u1680",
      "\\u2000", "\\u2001", "\\u2002", "\\u2003", "\\u2004", "\\u2005",
      "\\u2006", "\\u2007", "\\u2008", "\\u2009", "\\u200A",
      "\\u2028", "\\u2029", "\\u202F", "\\u205F", "\\u3000", "\\uFEFF" }

\* the value of a character as a digit: "a" and "A" are 10, "z" and "Z" 35;
\* 36 for a character that is no digit of any radix
digitOf(ch) ==
    IF \E k \in 1..10 : DecimalDigits[k] = ch
    THEN (CHOOSE k \in 1..10 : DecimalDigits[k] = ch) - 1
    ELSE IF \E k \in 1..26 : LowerCase[k] = ch
    THEN 9 + (CHOOSE k \in 1..26 : LowerCase[k] = ch)
    ELSE IF \E k \in 1..26 : UpperCase[k] = ch
    THEN 9 + (CHOOSE k \in 1..26 : UpperCase[k] = ch)
    ELSE 36

\* the value of the run of digits s[i..] in a radix, acc being the value read
\* so far; reading stops at the first character that is no digit of the radix
RECURSIVE digitsValue(_, _, _, _)
digitsValue(s, i, acc, radix) ==
    IF i > Len(s) \/ digitOf(s[i]) >= radix THEN acc
    ELSE digitsValue(s, i + 1, radix * acc + digitOf(s[i]), radix)

\* parseInt: the position of the first character that is no white space
RECURSIVE skipWhiteSpace(_, _)
skipWhiteSpace(s, i) ==
    IF i <= Len(s) /\ s[i] \in WhiteSpace THEN skipWhiteSpace(s, i + 1) ELSE i

\* parseInt: the position after the white space and one sign
parseIntSign(s) ==
    LET i == skipWhiteSpace(s, 1)
    IN  IF i <= Len(s) /\ s[i] \in {"+", "-"} THEN i + 1 ELSE i

\* parseInt: "0x" or "0X" follows the sign, and the radix (0: none was given)
\* lets it stand for radix 16
parseIntStripPrefix(s, radix) ==
    LET i == parseIntSign(s)
    IN  /\ radix \in {0, 16}
        /\ i + 1 <= Len(s)
        /\ s[i] = "0"
        /\ s[i + 1] \in {"x", "X"}

\* parseInt: the radix the digits are read in
parseIntRadix(s, radix) ==
    IF parseIntStripPrefix(s, radix) THEN 16
    ELSE IF radix = 0 THEN 10
    ELSE radix

\* parseInt: the position of the first digit
parseIntStart(s, radix) ==
    IF parseIntStripPrefix(s, radix) THEN parseIntSign(s) + 2 ELSE parseIntSign(s)

\* parseInt(s, radix) is NaN: the radix is outside 2..36, or no digit of the
\* radix follows the white space, the sign and the prefix
parseIntNaN(s, radix) ==
    LET i == parseIntStart(s, radix)
    IN  \/ radix # 0 /\ radix \notin 2..36
        \/ i > Len(s)
        \/ digitOf(s[i]) >= parseIntRadix(s, radix)

\* parseInt(s, radix) when it is a number; radix 0 stands for parseInt(s)
parseInt(s, radix) ==
    LET i == skipWhiteSpace(s, 1)
        n == digitsValue(s, parseIntStart(s, radix), 0, parseIntRadix(s, radix))
    IN  IF i <= Len(s) /\ s[i] = "-" THEN 0 - n ELSE n

\* parseInt(customerNumberRaw, 10) || 1: NaN and 0 give 1
customerNumber(customerId) ==
    LET raw == customerNumberRaw(customerId)
    IN  IF parseIntNaN(raw, 10) THEN 1
        ELSE IF parseInt(raw, 10) = 0 THEN 1 ELSE parseInt(raw, 10)

\* s.trimEnd()
RECURSIVE trimEnd(_)
trimEnd(s) ==
    IF s # << >> /\ s[Len(s)] \in WhiteSpace
    THEN trimEnd(SubSeq(s, 1, Len(s) - 1))
    ELSE s

\* s.trim(): the setter of a schema path declared with trim: true
trim(s) == trimEnd(SubSeq(s, skipWhiteSpace(s, 1), Len(s)))

\* The calendar: time 0 is 1 January 2025, 00:00 local time, and the times of
\* the model lie in that year.
EpochYear == <<"2", "0", "2", "5">>
MonthDays == <<31, 28, 31, 30, 31, 30, 31, 31, 30, 31, 30, 31>>

\* the month (1..12) in which day d of a year that starts with month m falls,
\* d counted from 0 within month m onwards
RECURSIVE monthOf(_, _)
monthOf(d, m) ==
    IF m = 12 \/ d < MonthDays[m] THEN m ELSE monthOf(d - MonthDays[m], m + 1)

\* the day of the month (1..31) of that day
RECURSIVE dateOf(_, _)
dateOf(d, m) ==
    IF m = 12 \/ d < MonthDays[m] THEN d + 1 ELSE dateOf(d - MonthDays[m], m + 1)

\* generatePaymentId, called at time t: PAY-YYYYMMDD-XXXXX
generatePaymentId(sequenceNumber, t) ==
    LET year  == EpochYear
        month == padStart(String(monthOf(DayOf(t), 1)), 2, "0")
        day   == padStart(String(dateOf(DayOf(t), 1)), 2, "0")
        seq   == padStart(String(sequenceNumber), 5, "0")
    IN  <<"P", "A", "Y", "-">> \o year \o month \o day \o <<"-">> \o seq

\* Payment.countDocuments over the calendar day of paymentDate
PaymentsToday(paymentDate) ==
    Cardinality({p \in DOMAIN payments :
                    DayOf(payments[p].paymentDate) = DayOf(paymentDate)})

Response(op, code) == [op |-> op, code |-> code]

\* the document Customer.create stores: customerId, name and phone are trimmed
\* by the schema, the counters take the schema defaults
NewCustomer(customerId, name, phone) ==
    [stored |-> TRUE, customerId |-> trim(customerId), name |-> trim(name),
     phone |-> trim(phone), totalLoans |-> 0, activeLoans |-> 0,
     totalAmountBorrowed |-> 0, totalAmountRepaid |-> 0]

\* Customer.create throws: schema validation (customerId, name and phone are
\* required and must not be empty after the trim), or the unique index on
\* customerId
CustomerCreateFails(customerId, name, phone) ==
    \/ trim(customerId) = << >>
    \/ trim(name) = << >>
    \/ trim(phone) = << >>
    \/ \E c \in DOMAIN customers :
          customers[c].stored /\ customers[c].customerId = trim(customerId)

\* what is left of a customer after customer.deleteOne(): its _id is not reused
DeletedCustomer ==
    [stored |-> FALSE, customerId |-> << >>, name |-> << >>, phone |-> << >>,
     totalLoans |-> 0, activeLoans |-> 0,
     totalAmountBorrowed |-> 0, totalAmountRepaid |-> 0]

\* Customer.findById(c) finds a document
CustomerStored(c) == c \in DOMAIN customers /\ customers[c].stored

\* the first customer createCustomer stores: CUS-00001
FirstCustomer ==
    NewCustomer(generateCustomerId(1), <<"N">>,
                <<"9", "0", "0", "0", "0", "0", "0", "0", "0", "1">>)

\* the collections
Database == [customers |-> customers, loans |-> loans,
             payments |-> payments, nextPid |-> nextPid]

\* the ledger starts with one customer and no loan
Init ==
    /\ customers = <<FirstCustomer>>
    /\ loans = << >>
    /\ payments = << >>
    /\ nextPid = 1
    /\ now = 0
    /\ res = Response("none", 0)
    /\ requests = << >>
    /\ before = Database

\* the clock advances
Tick ==
    /\ now + TimeStep \in Times
    /\ now' = now + TimeStep
    /\ UNCHANGED <<customers, loans, payments, nextPid, res, requests, before>>

\* a type code that ignores the interest type
loanTypeCodeFixed(interestType) == "M"

\* interestType === 'daily' ? 'D' : 'M'
loanTypeCode(interestType) == IF interestType = "daily" THEN "D" ELSE "M"

\* the document Loan.create stores, after loanSchema.pre('save'); loanId is
\* trimmed by the schema
NewLoan(sequenceNumber, c, customerId, customerLoanNumber, principalAmount, terms, disbursementDate, dueDate) ==
    [ loanId |-> trim(generateLoanId(sequenceNumber, customerNumber(customerId),
                                     customerLoanNumber, <<loanTypeCode(terms[1])>>)),
      sequenceNumber |-> sequenceNumber,
      customer |-> c,
      customerId |-> customerId,
      customerLoanNumber |-> customerLoanNumber,
      principalAmount |-> principalAmount,
      interestType |-> terms[1],
      interestRate |-> terms[2],
      disbursementDate |-> disbursementDate,
      dueDate |-> dueDate,
      closedDate |-> NoDate,
      totalInterestEarned |-> 0,
      totalAmountPaid |-> 0,
      outstandingPrincipal |-> principalAmount,
      outstandingInterest |-> 0,
      status |-> "active",
      profitLoss |-> 0,
      loanTypeCode |-> loanTypeCode(terms[1]),
      totalPayments |-> 0,
      lastPaymentDate |-> NoDate ]

\* "Update customer statistics" of createLoan
CustomerAfterLoan(customer, principalAmount) ==
    [customer EXCEPT !.totalLoans = @ + 1,
                     !.activeLoans = @ + 1,
                     !.totalAmountBorrowed = @ + principalAmount]

\* loanSchema.interestType: enum
InterestTypes == {"daily", "monthly"}

\* Loan.create throws: schema validation (principalAmount and interestRate have
\* min 0, interestType is of the enum), or the unique index on loanId
LoanCreateFails(loan) ==
    \/ loan.principalAmount < 0
    \/ loan.interestRate < 0
    \/ loan.interestType \notin InterestTypes
    \/ \E i \in DOMAIN loans : loans[i].loanId = loan.loanId

\* ---------------------------------------------------------------- requests
\* A handler is an async function: it runs alone up to each await, where the
\* handlers of other requests may run.  There is one action for each await of a
\* handler: the code up to the await and the database operation awaited.
\* requests[r].pc names the await request r has reached; a document a handler
\* has read is its own copy (requests[r]).  A request for a document that does
\* not exist is answered 404 before anything is read or written: it is a guard
\* of the action of the first await.

\* a request is received while fewer than MaxRequests are held
Arrive(request) ==
    /\ Len(requests) < MaxRequests
    /\ requests' = Append(requests, request)

SetRequest(r, request) == requests' = [requests EXCEPT ![r] = request]

\* the fields of a request that are the handler's local variables: its copies
\* of documents and what it computed from them
Copies == {"loan", "changed", "customer", "payment",
           "populated", "paymentId", "sequenceNumber", "customerId"}

\* a request answered with an HTTP status: the handler has ended, its local
\* variables are gone
Done(request, code) ==
    [f \in DOMAIN request \ Copies |->
        IF f = "pc" THEN "done" ELSE IF f = "code" THEN code ELSE request[f]]

\* every request received has been answered
Answered == \A r \in DOMAIN requests : requests[r].pc = "done"

\* the requests answered are forgotten
Forget ==
    /\ requests # << >>
    /\ Answered
    /\ requests' = << >>
    /\ before' = Database
    /\ UNCHANGED <<customers, loans, payments, nextPid, now, res>>

\* document.save(): the paths the handler has changed since it read the
\* document are written over the stored document, the others are left alone
SaveModified(stored, read, changed) ==
    [f \in DOMAIN stored |-> IF changed[f] # read[f] THEN changed[f] ELSE stored[f]]

\* the customerId of customer c
CustomerIdOf(c) == customers[c].customerId

\* the loanId createLoan gave a loan
LoanIdOf(loan) == loan.loanId

\* ------------------------------------------------------- POST /api/loans
\* createLoan up to "await Customer.findOne": the request arrives; it names
\* customer c by its customerId
createLoanFindCustomer(c, principalAmount, terms, disbursementDate, dueDate) ==
    /\ Len(loans) < MaxLoans
    /\ CustomerStored(c)           \* Customer.findOne({customerId}) finds the customer
    /\ Arrive([op |-> "createLoan", pc |-> "findLastLoan", code |-> 0,
               c |-> c, principalAmount |-> principalAmount, terms |-> terms,
               disbursementDate |-> disbursementDate, dueDate |-> dueDate,
               customer |-> customers[c], sequenceNumber |-> 0])
    /\ UNCHANGED <<customers, loans, payments, nextPid, now, res, before>>

\* createLoan up to "await Loan.findOne().sort({createdAt: -1})"
createLoanFindLast(r) ==
    /\ r \in DOMAIN requests
    /\ requests[r].op = "createLoan" /\ requests[r].pc = "findLastLoan"
    /\ SetRequest(r, [requests[r] EXCEPT
           !.sequenceNumber = IF Len(loans) > 0
                              THEN loans[Len(loans)].sequenceNumber + 1 ELSE 1,
           !.pc = "create"])
    /\ UNCHANGED <<customers, loans, payments, nextPid, now, res, before>>

\* createLoan up to "await Loan.create": when it throws (validation, or the
\* unique index on loanId) the handler answers 500
createLoanCreate(r) ==
    /\ r \in DOMAIN requests
    /\ requests[r].op = "createLoan" /\ requests[r].pc = "create"
    /\ LET q == requests[r]
           loan == NewLoan(q.sequenceNumber, q.c, q.customer.customerId,
                           q.customer.totalLoans + 1,
                           q.principalAmount, q.terms, q.disbursementDate, q.dueDate)
       IN  IF LoanCreateFails(loan)
           THEN /\ SetRequest(r, Done(q, 500))
                /\ UNCHANGED loans
           ELSE /\ SetRequest(r, [q EXCEPT !.pc = "saveCustomer"])
                /\ loans' = Append(loans, loan)
    /\ UNCHANGED <<customers, payments, nextPid, now, res, before>>

\* createLoan up to "await customer.save()" and the response; save() throws
\* when the document is no longer stored (the loan stays created)
createLoanSaveCustomer(r) ==
    /\ r \in DOMAIN requests
    /\ requests[r].op = "createLoan" /\ requests[r].pc = "saveCustomer"
    /\ LET q == requests[r]
           customer == CustomerAfterLoan(q.customer, q.principalAmount)
       IN  IF CustomerStored(q.c)
           THEN /\ customers' = [customers EXCEPT ![q.c] =
                                     SaveModified(@, q.customer, customer)]
                /\ SetRequest(r, Done(q, 201))
           ELSE /\ SetRequest(r, Done(q, 500))
                /\ UNCHANGED customers
    /\ UNCHANGED <<loans, payments, nextPid, now, res, before>>

\* ------------------------------------------------ PUT /api/loans/:id/close
\* closeLoan up to "await Loan.findById": the request arrives; a loan that is
\* closed or has principal outstanding is refused, otherwise the handler sets
\* status and closedDate (new Date()) on its copy
closeLoanFindLoan(lid) ==
    /\ lid \in DOMAIN loans        \* Loan.findById finds the loan
    /\ LET loan == loans[lid]
           q == [op |-> "closeLoan", pc |-> "saveLoan", code |-> 0, lid |-> lid,
                 loan |-> loan,
                 changed |-> [loan EXCEPT !.status = "closed", !.closedDate = now],
                 customer |-> DeletedCustomer]
       IN  IF CloseRefused(loan)
           THEN /\ Arrive(Done(q, 400))
           ELSE /\ Arrive(q)
    /\ UNCHANGED <<customers, loans, payments, nextPid, now, res, before>>

\* closeLoan up to "await loan.save()"
closeLoanSaveLoan(r) ==
    /\ r \in DOMAIN requests
    /\ requests[r].op = "closeLoan" /\ requests[r].pc = "saveLoan"
    /\ LET q == requests[r]
       IN  /\ loans' = [loans EXCEPT ![q.lid] = SaveModified(@, q.loan, q.changed)]
           /\ SetRequest(r, [q EXCEPT !.pc = "findCustomer"])
    /\ UNCHANGED <<customers, payments, nextPid, now, res, before>>

\* closeLoan up to "await Customer.findById"; without the customer the handler
\* answers here
closeLoanFindCustomer(r) ==
    /\ r \in DOMAIN requests
    /\ requests[r].op = "closeLoan" /\ requests[r].pc = "findCustomer"
    /\ LET q == requests[r]
           c == q.loan.customer
       IN  IF CustomerStored(c)
           THEN /\ SetRequest(r, [q EXCEPT !.customer = customers[c],
                                           !.pc = "saveCustomer"])
           ELSE /\ SetRequest(r, Done(q, 200))
    /\ UNCHANGED <<customers, loans, payments, nextPid, now, res, before>>

\* closeLoan up to "await customer.save()" and the response
closeLoanSaveCustomer(r) ==
    /\ r \in DOMAIN requests
    /\ requests[r].op = "closeLoan" /\ requests[r].pc = "saveCustomer"
    /\ LET q == requests[r]
           c == q.loan.customer
           customer == [q.customer EXCEPT !.activeLoans = DecrementActive(@)]
       IN  IF CustomerStored(c)
           THEN /\ customers' = [customers EXCEPT ![c] =
                                     SaveModified(@, q.customer, customer)]
                /\ SetRequest(r, Done(q, 200))
           ELSE /\ SetRequest(r, Done(q, 500))
                /\ UNCHANGED customers
    /\ UNCHANGED <<loans, payments, nextPid, now, res, before>>

\* ----------------------------------------------------- POST /api/payments
\* createPayment: the Payment document handed to Payment.create
PaymentDoc(loan, lid, amount, paymentDate, paymentId) ==
    LET interestPaid == InterestPaid(loan, amount, paymentDate)
        principalPaid == PrincipalPaid(loan, amount, paymentDate)
    IN  [ paymentId |-> trim(paymentId),      \* paymentSchema: trim
          loan |-> lid,
          loanId |-> loan.loanId,
          customer |-> loan.customer,
          customerId |-> loan.customerId,
          amount |-> amount,
          principalPaid |-> principalPaid,
          interestPaid |-> interestPaid,
          paymentDate |-> paymentDate,
          status |-> "completed",
          outstandingPrincipalAfter |-> loan.outstandingPrincipal - principalPaid,
          outstandingInterestAfter |->
              TotalOutstandingInterest(loan, paymentDate) - interestPaid ]

\* Payment.create throws: schema validation, or the unique index on paymentId
PaymentCreateFails(amount, paymentId) ==
    \/ ~AmountValid(amount)
    \/ \E p \in DOMAIN payments : payments[p].paymentId = trim(paymentId)

\* createPayment: "Update loan", before the fully-paid check; t is the clock
LoanUpdated(loan, amount, paymentDate, t) ==
    updateOutstanding(
        [loan EXCEPT !.totalAmountPaid = @ + amount,
                     !.totalInterestEarned = @ + InterestPaid(loan, amount, paymentDate),
                     !.outstandingPrincipal = @ - PrincipalPaid(loan, amount, paymentDate),
                     !.totalPayments = @ + 1,
                     !.lastPaymentDate = paymentDate], t)

\* createPayment: the loan as saved
LoanAfterPayment(loan, amount, paymentDate, t) ==
    LET l2 == LoanUpdated(loan, amount, paymentDate, t)
    IN  IF FullyPaid(l2)
        THEN [l2 EXCEPT !.status = "closed", !.closedDate = paymentDate]
        ELSE l2

\* a reversal that leaves the interest earned as it is
LoanAfterDeleteKeepsInterest(loan, payment) ==
    [loan EXCEPT !.totalAmountPaid = @ - payment.amount,
                 !.outstandingPrincipal = @ + payment.principalPaid,
                 !.totalPayments = Max(0, @ - 1),
                 !.status = IF @ = "closed" THEN "active" ELSE @,
                 !.closedDate = IF loan.status = "closed" THEN NoDate ELSE @]

\* a reversal that also forgets the date of the last payment
LoanAfterDeleteClearsDate(loan, payment) ==
    [loan EXCEPT !.totalAmountPaid = @ - payment.amount,
                 !.totalInterestEarned = @ - payment.interestPaid,
                 !.outstandingPrincipal = @ + payment.principalPaid,
                 !.totalPayments = Max(0, @ - 1),
                 !.lastPaymentDate = NoDate,
                 !.status = IF @ = "closed" THEN "active" ELSE @,
                 !.closedDate = IF loan.status = "closed" THEN NoDate ELSE @]

\* deletePayment: "Reverse the payment effects on loan"
LoanAfterDelete(loan, payment) ==
    LET l1 == [loan EXCEPT !.totalAmountPaid = @ - payment.amount,
                           !.totalInterestEarned = @ - payment.interestPaid,
                           !.outstandingPrincipal = @ + payment.principalPaid,
                           !.totalPayments = Max(0, @ - 1)]
    IN  IF loan.status = "closed"
        THEN [l1 EXCEPT !.status = "active", !.closedDate = NoDate]
        ELSE l1

\* deletePayment: the customer is saved only when a closed loan is reopened, and
\* then with activeLoans changed and nothing else
CustomerAfterDelete(customer, loan, payment) ==
    IF loan.status = "closed"
    THEN [customer EXCEPT !.activeLoans = IncrementActive(@)]
    ELSE customer
\* createPayment: the customer as saved, given the loan before and after
CustomerAfterPayment(customer, loan, amount, paymentDate, t) ==
    LET closes == FullyPaid(LoanUpdated(loan, amount, paymentDate, t))
        saved == LoanAfterPayment(loan, amount, paymentDate, t)
        c1 == IF closes
              THEN [customer EXCEPT !.activeLoans = DecrementActive(@),
                                    !.totalAmountRepaid = @ + amount]
              ELSE customer
    IN  IF RepaidAfterSave(saved.status)
        THEN [c1 EXCEPT !.totalAmountRepaid = @ + amount]
        ELSE c1

\* the createPayment requests that may still create their payment
PaymentsUnderWay ==
    Cardinality({r \in DOMAIN requests :
                    /\ requests[r].op = "createPayment"
                    /\ requests[r].pc \in {"populate", "countDocuments", "create"}
                    /\ ~PaymentRefused(requests[r].loan)})

\* createPayment, "await Loan.findOne({ loanId }).populate('customer')", the
\* query of the loan: the request arrives and reads the loan.  populate sends
\* a second query, for the customer, when this one has been answered
createPaymentFindLoan(lid, amount, paymentDate) ==
    /\ lid \in DOMAIN loans        \* Loan.findOne finds the loan
    /\ LET loan == loans[lid]
       IN  /\ PaymentRefused(loan) \/ nextPid + PaymentsUnderWay <= MaxPayments
           /\ Arrive([op |-> "createPayment", pc |-> "populate", code |-> 0,
                      lid |-> lid, amount |-> amount, paymentDate |-> paymentDate,
                      loan |-> loan, changed |-> loan, populated |-> FALSE,
                      customer |-> DeletedCustomer, paymentId |-> << >>])
    /\ UNCHANGED <<customers, loans, payments, nextPid, now, res, before>>

\* createPayment, "await Loan.findOne({ loanId }).populate('customer')", the
\* query of the customer: loan.customer is the customer stored now, or null
\* (the handler uses its _id only).  A closed loan is refused, otherwise the
\* payment is allocated against the loan as read
createPaymentPopulate(r) ==
    /\ r \in DOMAIN requests
    /\ requests[r].op = "createPayment" /\ requests[r].pc = "populate"
    /\ LET q == [requests[r] EXCEPT !.populated = CustomerStored(requests[r].loan.customer)]
       IN  IF PaymentRefused(q.loan)
           THEN SetRequest(r, Done(q, 400))
           ELSE SetRequest(r, [q EXCEPT !.pc = "countDocuments"])
    /\ UNCHANGED <<customers, loans, payments, nextPid, now, res, before>>

\* createPayment up to "await Payment.countDocuments", then generatePaymentId
\* and the argument of Payment.create: loan.customer._id of a customer that
\* populate did not find throws, and the handler answers 500
createPaymentCount(r) ==
    /\ r \in DOMAIN requests
    /\ requests[r].op = "createPayment" /\ requests[r].pc = "countDocuments"
    /\ LET q == requests[r]
       IN  IF ~q.populated
           THEN SetRequest(r, Done(q, 500))
           ELSE SetRequest(r, [q EXCEPT
                    !.paymentId = generatePaymentId(PaymentsToday(q.paymentDate) + 1, now),
                    !.pc = "create"])
    /\ UNCHANGED <<customers, loans, payments, nextPid, now, res, before>>

\* createPayment up to "await Payment.create", then "Update loan" on the
\* handler's copy of the loan and the fully-paid check.  When Payment.create
\* throws (validation, or the unique index on paymentId) the handler answers 500
createPaymentCreate(r) ==
    /\ r \in DOMAIN requests
    /\ requests[r].op = "createPayment" /\ requests[r].pc = "create"
    /\ LET q == requests[r]
           changed == LoanAfterPayment(q.loan, q.amount, q.paymentDate, now)
       IN  IF PaymentCreateFails(q.amount, q.paymentId)
           THEN /\ SetRequest(r, Done(q, 500))
                /\ UNCHANGED <<payments, nextPid>>
           ELSE /\ payments' = [p \in DOMAIN payments \cup {nextPid} |->
                                   IF p = nextPid
                                   THEN PaymentDoc(q.loan, q.lid, q.amount,
                                                   q.paymentDate, q.paymentId)
                                   ELSE payments[p]]
                /\ nextPid' = nextPid + 1
                /\ SetRequest(r, [q EXCEPT
                       !.changed = changed,
                       !.pc = IF changed.status = "closed"
                              THEN "findCustomerClosed" ELSE "saveLoan"])
    /\ UNCHANGED <<customers, loans, now, res, before>>

\* createPayment, loan fully paid, up to "await Customer.findById"; without
\* the customer the handler goes on to save the loan
createPaymentFindCustomerClosed(r) ==
    /\ r \in DOMAIN requests
    /\ requests[r].op = "createPayment" /\ requests[r].pc = "findCustomerClosed"
    /\ LET q == requests[r]
           c == q.loan.customer
       IN  IF CustomerStored(c)
           THEN SetRequest(r, [q EXCEPT !.customer = customers[c],
                                        !.pc = "saveCustomerClosed"])
           ELSE SetRequest(r, [q EXCEPT !.pc = "saveLoan"])
    /\ UNCHANGED <<customers, loans, payments, nextPid, now, res, before>>

\* createPayment, loan fully paid, up to "await customer.save()"
createPaymentSaveCustomerClosed(r) ==
    /\ r \in DOMAIN requests
    /\ requests[r].op = "createPayment" /\ requests[r].pc = "saveCustomerClosed"
    /\ LET q == requests[r]
           c == q.loan.customer
           customer == [q.customer EXCEPT !.activeLoans = DecrementActive(@),
                                          !.totalAmountRepaid = @ + q.amount]
       IN  IF CustomerStored(c)
           THEN /\ customers' = [customers EXCEPT ![c] =
                                     SaveModified(@, q.customer, customer)]
                /\ SetRequest(r, [q EXCEPT !.pc = "saveLoan"])
           ELSE /\ SetRequest(r, Done(q, 500))
                /\ UNCHANGED customers
    /\ UNCHANGED <<loans, payments, nextPid, now, res, before>>

\* createPayment up to "await loan.save()"
createPaymentSaveLoan(r) ==
    /\ r \in DOMAIN requests
    /\ requests[r].op = "createPayment" /\ requests[r].pc = "saveLoan"
    /\ LET q == requests[r]
       IN  /\ loans' = [loans EXCEPT ![q.lid] = SaveModified(@, q.loan, q.changed)]
           /\ SetRequest(r, [q EXCEPT !.pc = "findCustomer"])
    /\ UNCHANGED <<customers, payments, nextPid, now, res, before>>

\* createPayment up to the last "await Customer.findById"; the handler answers
\* here when the customer is gone or its loan is closed
createPaymentFindCustomer(r) ==
    /\ r \in DOMAIN requests
    /\ requests[r].op = "createPayment" /\ requests[r].pc = "findCustomer"
    /\ LET q == requests[r]
           c == q.loan.customer
       IN  IF CustomerStored(c) /\ RepaidAfterSave(q.changed.status)
           THEN /\ SetRequest(r, [q EXCEPT !.customer = customers[c],
                                           !.pc = "saveCustomer"])
           ELSE /\ SetRequest(r, Done(q, 201))
    /\ UNCHANGED <<customers, loans, payments, nextPid, now, res, before>>

\* createPayment up to the last "await customer.save()" and the response
createPaymentSaveCustomer(r) ==
    /\ r \in DOMAIN requests
    /\ requests[r].op = "createPayment" /\ requests[r].pc = "saveCustomer"
    /\ LET q == requests[r]
           c == q.loan.customer
           customer == [q.customer EXCEPT !.totalAmountRepaid = @ + q.amount]
       IN  IF CustomerStored(c)
           THEN /\ customers' = [customers EXCEPT ![c] =
                                     SaveModified(@, q.customer, customer)]
                /\ SetRequest(r, Done(q, 201))
           ELSE /\ SetRequest(r, Done(q, 500))
                /\ UNCHANGED customers
    /\ UNCHANGED <<loans, payments, nextPid, now, res, before>>

\* -------------------------------------------------- DELETE /api/payments/:id
\* deletePayment up to "await Payment.findById": the request arrives
deletePaymentFindPayment(pid) ==
    /\ pid \in DOMAIN payments     \* Payment.findById finds the payment
    /\ LET loan == loans[payments[pid].loan]
       IN  Arrive([op |-> "deletePayment", pc |-> "findLoan", code |-> 0, pid |-> pid,
                   payment |-> payments[pid], lid |-> payments[pid].loan,
                   loan |-> loan, changed |-> loan, customer |-> DeletedCustomer])
    /\ UNCHANGED <<customers, loans, payments, nextPid, now, res, before>>

\* deletePayment up to "await Loan.findById", then "Reverse the payment
\* effects on loan" on the handler's copy
deletePaymentFindLoan(r) ==
    /\ r \in DOMAIN requests
    /\ requests[r].op = "deletePayment" /\ requests[r].pc = "findLoan"
    /\ LET q == requests[r]
           loan == loans[q.lid]
       IN  SetRequest(r, [q EXCEPT !.loan = loan,
                                   !.changed = LoanAfterDelete(loan, q.payment),
                                   !.pc = IF loan.status = "closed"
                                          THEN "findCustomer" ELSE "saveLoan"])
    /\ UNCHANGED <<customers, loans, payments, nextPid, now, res, before>>

\* deletePayment, loan closed, up to "await Customer.findById"
deletePaymentFindCustomer(r) ==
    /\ r \in DOMAIN requests
    /\ requests[r].op = "deletePayment" /\ requests[r].pc = "findCustomer"
    /\ LET q == requests[r]
           c == q.loan.customer
       IN  IF CustomerStored(c)
           THEN SetRequest(r, [q EXCEPT !.customer = customers[c],
                                        !.pc = "saveCustomer"])
           ELSE SetRequest(r, [q EXCEPT !.pc = "saveLoan"])
    /\ UNCHANGED <<customers, loans, payments, nextPid, now, res, before>>

\* deletePayment, loan closed, up to "await customer.save()"
deletePaymentSaveCustomer(r) ==
    /\ r \in DOMAIN requests
    /\ requests[r].op = "deletePayment" /\ requests[r].pc = "saveCustomer"
    /\ LET q == requests[r]
           c == q.loan.customer
       IN  IF CustomerStored(c)
           THEN /\ customers' = [customers EXCEPT ![c] =
                       SaveModified(@, q.customer,
                                    CustomerAfterDelete(q.customer, q.loan, q.payment))]
                /\ SetRequest(r, [q EXCEPT !.pc = "saveLoan"])
           ELSE /\ SetRequest(r, Done(q, 500))
                /\ UNCHANGED customers
    /\ UNCHANGED <<loans, payments, nextPid, now, res, before>>

\* deletePayment up to "await loan.save()"
deletePaymentSaveLoan(r) ==
    /\ r \in DOMAIN requests
    /\ requests[r].op = "deletePayment" /\ requests[r].pc = "saveLoan"
    /\ LET q == requests[r]
       IN  /\ loans' = [loans EXCEPT ![q.lid] = SaveModified(@, q.loan, q.changed)]
           /\ SetRequest(r, [q EXCEPT !.pc = "deleteOne"])
    /\ UNCHANGED <<customers, payments, nextPid, now, res, before>>

\* deletePayment up to "await payment.deleteOne()" and the response; deleting
\* a payment that is already gone is no error
deletePaymentDeleteOne(r) ==
    /\ r \in DOMAIN requests
    /\ requests[r].op = "deletePayment" /\ requests[r].pc = "deleteOne"
    /\ payments' = [p \in DOMAIN payments \ {requests[r].pid} |-> payments[p]]
    /\ SetRequest(r, Done(requests[r], 200))
    /\ UNCHANGED <<customers, loans, nextPid, now, res, before>>

\* the dates a payment request carries: the epoch (backdated) or today
PaymentDates == {0, now}

RequestIds == 1..MaxRequests

\* the awaits of the handlers of the requests received
Steps ==
    \/ \E r \in RequestIds : createLoanFindLast(r)
    \/ \E r \in RequestIds : createLoanCreate(r)
    \/ \E r \in RequestIds : createLoanSaveCustomer(r)
    \/ \E r \in RequestIds : closeLoanSaveLoan(r)
    \/ \E r \in RequestIds : closeLoanFindCustomer(r)
    \/ \E r \in RequestIds : closeLoanSaveCustomer(r)
    \/ \E r \in RequestIds : createPaymentPopulate(r)
    \/ \E r \in RequestIds : createPaymentCount(r)
    \/ \E r \in RequestIds : createPaymentCreate(r)
    \/ \E r \in RequestIds : createPaymentFindCustomerClosed(r)
    \/ \E r \in RequestIds : createPaymentSaveCustomerClosed(r)
    \/ \E r \in RequestIds : createPaymentSaveLoan(r)
    \/ \E r \in RequestIds : createPaymentFindCustomer(r)
    \/ \E r \in RequestIds : createPaymentSaveCustomer(r)
    \/ \E r \in RequestIds : deletePaymentFindLoan(r)
    \/ \E r \in RequestIds : deletePaymentFindCustomer(r)
    \/ \E r \in RequestIds : deletePaymentSaveCustomer(r)
    \/ \E r \in RequestIds : deletePaymentSaveLoan(r)
    \/ \E r \in RequestIds : deletePaymentDeleteOne(r)

\* the requests to createLoan, closeLoan, createPayment and deletePayment
Arrivals ==
    \/ \E c \in Customers, p \in Principals, terms \in LoanTerms,
          d \in DisbursementDates, due \in DueDates :
             createLoanFindCustomer(c, p, terms, d, due)
    \/ \E lid \in LoanIds : closeLoanFindLoan(lid)
    \/ \E lid \in LoanIds, a \in Amounts, d \in PaymentDates :
          createPaymentFindLoan(lid, a, d)
    \/ \E pid \in PaymentIds : deletePaymentFindPayment(pid)

\* the amounts of the payments of Next: a part of what is owed, and more than
\* is owed.  Amounts of 0 and below run together with other requests in
\* NextApi, and alone in NextSerial
AmountsTogether == {a \in Amounts : a > 0}

Next ==
    \/ Tick
    \/ Forget
    \/ \E c \in Customers, p \in Principals, terms \in LoanTerms,
          d \in DisbursementDates, due \in DueDates :
             createLoanFindCustomer(c, p, terms, d, due)
    \/ \E lid \in LoanIds : closeLoanFindLoan(lid)
    \/ \E lid \in LoanIds, a \in AmountsTogether, d \in PaymentDates :
          createPaymentFindLoan(lid, a, d)
    \/ \E pid \in PaymentIds : deletePaymentFindPayment(pid)
    \/ Steps

\* requests to createLoan, closeLoan, createPayment and deletePayment; the
\* handlers of up to MaxRequests requests run together, await by await
Spec == Init /\ [][Next]_vars

\* every interest computation the handlers can make from a reachable state is exact
ExactArith ==
    \A lid \in DOMAIN loans : \A t \in Times :
        /\ ExactInterest(loans[lid], t)
        /\ ExactInterest([loans[lid] EXCEPT !.outstandingPrincipal =
                             loans[lid].principalAmount - loans[lid].totalAmountPaid], t)

\* no request is under way
Idle == Answered

\* a request arrives when every request before it has been answered; the
\* clock advances at any time, also between the awaits of a handler

NextSerial ==
    \/ Tick
    \/ Forget
    \/ \E c \in Customers, p \in Principals, terms \in LoanTerms,
          d \in DisbursementDates, due \in DueDates :
             Idle /\ createLoanFindCustomer(c, p, terms, d, due)
    \/ \E lid \in LoanIds : Idle /\ closeLoanFindLoan(lid)
    \/ \E lid \in LoanIds, a \in Amounts, d \in PaymentDates :
          Idle /\ createPaymentFindLoan(lid, a, d)
    \/ \E pid \in PaymentIds : Idle /\ deletePaymentFindPayment(pid)
    \/ Steps

\* the same requests, each arriving when the one before it has been answered
SpecSerial == Init /\ [][NextSerial]_vars

\* ------------------------------------------------ documents written directly
\* PUT /api/loans/:id, PUT /api/payments/:id and PUT /api/customers/:id look
\* the document up and then hand req.body to findByIdAndUpdate: the fields of
\* the body that are paths of the schema are cast by it (a path declared with
\* trim: true is trimmed), checked by the schema's validators (runValidators)
\* and written over the stored document; the other fields of the body are
\* dropped, and no save hook runs.  A unique index refuses a value that another
\* document holds.  The validators run before the update is sent, so a body
\* they refuse is answered 500 whether or not the document still exists.

\* of each schema, the String paths declared with trim: true and those
\* declared required
loanSchema     == [trim |-> {"loanId", "notes"},
                   required |-> {"loanId", "customerId"}]
customerSchema == [trim |-> {"customerId", "name", "phone"},
                   required |-> {"customerId", "name", "phone"}]
paymentSchema  == [trim |-> {"paymentId", "notes"},
                   required |-> {"paymentId", "loanId", "customerId"}]

\* a field of a body as the schema casts it
Cast(schema, f, value) == IF f \in schema.trim THEN trim(value) ELSE value

\* a required String path of a body is refused when it is empty after the cast
Required(schema, body) ==
    \A f \in schema.required \cap DOMAIN body : Cast(schema, f, body[f]) # << >>

\* findByIdAndUpdate(id, body): the document with the body's fields written;
\* stored is no path of a schema (it marks a deleted document), a body cannot
\* write it
Overwrite(schema, doc, body) ==
    [f \in DOMAIN doc |->
        IF f \in DOMAIN body /\ f # "stored"
        THEN Cast(schema, f, body[f]) ELSE doc[f]]

\* loanSchema.status: enum
LoanStatuses == {"active", "closed", "defaulted", "written-off"}

\* the validators of loanSchema on the fields of a body
LoanBodyValid(body) ==
    /\ Required(loanSchema, body)
    /\ "status" \in DOMAIN body => body.status \in LoanStatuses
    /\ "interestType" \in DOMAIN body => body.interestType \in InterestTypes
    /\ "loanTypeCode" \in DOMAIN body => body.loanTypeCode \in {"D", "M"}
    /\ "principalAmount" \in DOMAIN body => body.principalAmount >= 0
    /\ "interestRate" \in DOMAIN body => body.interestRate >= 0

\* the unique index on loanId refuses the loanId of another loan
LoanIdTaken(lid, body) ==
    /\ "loanId" \in DOMAIN body
    /\ \E k \in DOMAIN loans : k # lid /\ loans[k].loanId = Cast(loanSchema, "loanId", body.loanId)

\* the bodies of PUT /api/loans/:id: each status of the enum, a text outside
\* it, an interest type and a type code outside their enums, a loanId with
\* white space around it, a customerId with white space around it (which
\* loanSchema does not trim), an empty customerId, and ledger fields
LoanBodies ==
    { [status |-> "active"], [status |-> "closed"], [status |-> "defaulted"],
      [status |-> "written-off"], [status |-> "paid"],
      [interestType |-> "weekly"], [loanTypeCode |-> "W"],
      [loanId |-> <<" ", "L", "-", "9", "\t">>],
      [customerId |-> <<" ", "C", "U", "S", "-", "9", " ">>],
      [customerId |-> << >>],
      [outstandingPrincipal |-> 0, totalAmountPaid |-> 0] }

\* updateLoan up to "await Loan.findById": the request arrives
updateLoanFindLoan(lid, body) ==
    /\ lid \in DOMAIN loans        \* Loan.findById finds the loan
    /\ Arrive([op |-> "updateLoan", pc |-> "findByIdAndUpdate", code |-> 0,
               lid |-> lid, body |-> body])
    /\ UNCHANGED <<customers, loans, payments, nextPid, now, res, before>>

\* updateLoan up to "await Loan.findByIdAndUpdate" and the response; a body the
\* validators or the unique index refuse is answered 500
updateLoanUpdate(r) ==
    /\ r \in DOMAIN requests
    /\ requests[r].op = "updateLoan" /\ requests[r].pc = "findByIdAndUpdate"
    /\ LET q == requests[r]
       IN  IF LoanBodyValid(q.body) /\ ~LoanIdTaken(q.lid, q.body)
           THEN /\ loans' = [loans EXCEPT ![q.lid] = Overwrite(loanSchema, @, q.body)]
                /\ SetRequest(r, Done(q, 200))
           ELSE /\ SetRequest(r, Done(q, 500))
                /\ UNCHANGED loans
    /\ UNCHANGED <<customers, payments, nextPid, now, res, before>>

\* the validators of paymentSchema on the fields of a body
PaymentBodyValid(body) ==
    /\ Required(paymentSchema, body)
    /\ "amount" \in DOMAIN body => AmountValid(body.amount)
    /\ "status" \in DOMAIN body =>
           body.status \in {"completed", "pending", "failed", "reversed"}
    /\ "paymentMethod" \in DOMAIN body =>
           body.paymentMethod \in {"cash", "bank_transfer", "upi", "cheque", "other"}

\* the unique index on paymentId refuses the paymentId of another payment
PaymentIdTaken(pid, body) ==
    /\ "paymentId" \in DOMAIN body
    /\ \E k \in DOMAIN payments :
          k # pid /\ payments[k].paymentId = Cast(paymentSchema, "paymentId", body.paymentId)

\* the bodies of PUT /api/payments/:id: amounts, ledger fields, a status, a
\* payment method outside the enum, an empty customerId, an empty loanId, and
\* the paymentId of the first payment of day 0 with white space around it
PaymentBodies ==
    { [amount |-> 100], [amount |-> 0 - 1], [principalPaid |-> 0, interestPaid |-> 5],
      [status |-> "reversed"], [paymentMethod |-> "bitcoin"],
      [customerId |-> << >>, amount |-> 100], [loanId |-> << >>],
      [paymentId |-> <<" ">> \o generatePaymentId(1, 0) \o <<"\n">>] }

\* updatePayment up to "await Payment.findById": the request arrives
updatePaymentFindPayment(pid, body) ==
    /\ pid \in DOMAIN payments     \* Payment.findById finds the payment
    /\ Arrive([op |-> "updatePayment", pc |-> "findByIdAndUpdate", code |-> 0,
               pid |-> pid, body |-> body])
    /\ UNCHANGED <<customers, loans, payments, nextPid, now, res, before>>

\* updatePayment up to "await Payment.findByIdAndUpdate" and the response; a
\* body the validators refuse is answered 500; a payment deleted since it was
\* found is not written, and the answer is 200; the unique index refuses the
\* paymentId of another payment (500)
updatePaymentUpdate(r) ==
    /\ r \in DOMAIN requests
    /\ requests[r].op = "updatePayment" /\ requests[r].pc = "findByIdAndUpdate"
    /\ LET q == requests[r]
       IN  IF \/ ~PaymentBodyValid(q.body)
              \/ q.pid \in DOMAIN payments /\ PaymentIdTaken(q.pid, q.body)
           THEN /\ SetRequest(r, Done(q, 500))
                /\ UNCHANGED payments
           ELSE /\ payments' = IF q.pid \in DOMAIN payments
                               THEN [payments EXCEPT ![q.pid] =
                                         Overwrite(paymentSchema, @, q.body)]
                               ELSE payments
                /\ SetRequest(r, Done(q, 200))
    /\ UNCHANGED <<customers, loans, nextPid, now, res, before>>

\* the stored customers, latest first
RECURSIVE lastCustomer(_)
lastCustomer(n) ==
    IF n = 0 THEN 0
    ELSE IF customers[n].stored THEN n
    ELSE lastCustomer(n - 1)

\* lastCustomer.customerId.split('-')[1]: undefined when there is no '-'
customerIdPart(customerId) ==
    LET first == indexOf(customerId, "-", 1)
        next  == indexOf(customerId, "-", first + 1)
    IN  IF first = 0 THEN <<"u", "n", "d", "e", "f", "i", "n", "e", "d">>
        ELSE SubSeq(customerId, first + 1,
                    IF next = 0 THEN Len(customerId) ELSE next - 1)

\* createCustomer: generateCustomerId(parseInt(...) + 1) after a customer
\* whose customerId is given; parseInt is called without a radix, and
\* String(NaN) is "NaN"
customerIdAfter(customerId) ==
    LET part == customerIdPart(customerId)
    IN  IF parseIntNaN(part, 0)
        THEN <<"C", "U", "S", "-">> \o padStart(<<"N", "a", "N">>, 5, "0")
        ELSE generateCustomerId(parseInt(part, 0) + 1)

\* createCustomer: the customerId of the new customer; sequenceNumber is 1
\* without a stored customer
nextCustomerId ==
    LET last == lastCustomer(Len(customers))
    IN  IF last = 0 THEN generateCustomerId(1)
        ELSE customerIdAfter(customers[last].customerId)

\* createCustomer up to "await Customer.findOne({ phone })": the request
\* arrives; a phone number that a stored customer has is refused (the filter is
\* cast by the schema, so the phone is looked up trimmed)
createCustomerFindPhone(name, phone) ==
    /\ Len(customers) < MaxCustomers
    /\ LET q == [op |-> "createCustomer", pc |-> "findLastCustomer", code |-> 0,
                 name |-> name, phone |-> phone, customerId |-> << >>]
       IN  IF \E c \in DOMAIN customers :
                 customers[c].stored /\ customers[c].phone = trim(phone)
           THEN Arrive(Done(q, 400))
           ELSE Arrive(q)
    /\ UNCHANGED <<customers, loans, payments, nextPid, now, res, before>>

\* createCustomer up to "await Customer.findOne().sort({ createdAt: -1 })",
\* then generateCustomerId
createCustomerFindLast(r) ==
    /\ r \in DOMAIN requests
    /\ requests[r].op = "createCustomer" /\ requests[r].pc = "findLastCustomer"
    /\ SetRequest(r, [requests[r] EXCEPT !.customerId = nextCustomerId,
                                         !.pc = "create"])
    /\ UNCHANGED <<customers, loans, payments, nextPid, now, res, before>>

\* createCustomer up to "await Customer.create" and the response; when
\* Customer.create throws (a name or a phone that is empty after the trim, or
\* a customerId that a stored customer has) the handler answers 500
createCustomerCreate(r) ==
    /\ r \in DOMAIN requests
    /\ requests[r].op = "createCustomer" /\ requests[r].pc = "create"
    /\ LET q == requests[r]
       IN  IF CustomerCreateFails(q.customerId, q.name, q.phone)
           THEN /\ SetRequest(r, Done(q, 500))
                /\ UNCHANGED customers
           ELSE /\ customers' = Append(customers,
                                       NewCustomer(q.customerId, q.name, q.phone))
                /\ SetRequest(r, Done(q, 201))
    /\ UNCHANGED <<loans, payments, nextPid, now, res, before>>

\* the validators of customerSchema on the fields of a body
CustomerBodyValid(body) ==
    /\ Required(customerSchema, body)
    /\ "status" \in DOMAIN body => body.status \in {"active", "inactive", "blocked"}

\* the unique index on customerId refuses the customerId of another customer
CustomerIdTaken(c, body) ==
    /\ "customerId" \in DOMAIN body
    /\ \E k \in DOMAIN customers :
          /\ k # c
          /\ customers[k].stored
          /\ customers[k].customerId = Cast(customerSchema, "customerId", body.customerId)

\* the bodies of PUT /api/customers/:id: customerIds (one ends in a space,
\* which the schema trims), counters, a name that is empty after the trim, and
\* a status outside the enum
CustomerBodies ==
    { [customerId |-> <<"C", "U", "S", "-", "+", "7", " ">>],
      [customerId |-> <<"C", "U", "S", "-", "\t", "4", "2">>],
      [activeLoans |-> 7, totalAmountRepaid |-> 99],
      [totalAmountRepaid |-> 0],
      [name |-> <<" ">>],
      [status |-> "vip"] }

\* updateCustomer up to "await Customer.findById": the request arrives
updateCustomerFindCustomer(c, body) ==
    /\ CustomerStored(c)           \* Customer.findById finds the customer
    /\ Arrive([op |-> "updateCustomer", pc |-> "findByIdAndUpdate", code |-> 0,
               c |-> c, body |-> body])
    /\ UNCHANGED <<customers, loans, payments, nextPid, now, res, before>>

\* updateCustomer up to "await Customer.findByIdAndUpdate" and the response; a
\* body the validators refuse is answered 500; a customer deleted since it was
\* found is not written, and the answer is 200; the unique index on customerId
\* refuses a customerId that another stored customer has (500)
updateCustomerUpdate(r) ==
    /\ r \in DOMAIN requests
    /\ requests[r].op = "updateCustomer" /\ requests[r].pc = "findByIdAndUpdate"
    /\ LET q == requests[r]
       IN  IF ~CustomerBodyValid(q.body)
           THEN /\ SetRequest(r, Done(q, 500))
                /\ UNCHANGED customers
           ELSE IF ~CustomerStored(q.c)
           THEN /\ SetRequest(r, Done(q, 200))
                /\ UNCHANGED customers
           ELSE IF CustomerIdTaken(q.c, q.body)
           THEN /\ SetRequest(r, Done(q, 500))
                /\ UNCHANGED customers
           ELSE /\ customers' = [customers EXCEPT ![q.c] =
                                     Overwrite(customerSchema, @, q.body)]
                /\ SetRequest(r, Done(q, 200))
    /\ UNCHANGED <<loans, payments, nextPid, now, res, before>>

\* deleteCustomer up to "await Customer.findById": the request arrives
deleteCustomerFindCustomer(c) ==
    /\ CustomerStored(c)           \* Customer.findById finds the customer
    /\ Arrive([op |-> "deleteCustomer", pc |-> "countDocuments", code |-> 0, c |-> c])
    /\ UNCHANGED <<customers, loans, payments, nextPid, now, res, before>>

\* deleteCustomer up to "await Loan.countDocuments": a customer with an active
\* loan is refused
deleteCustomerCount(r) ==
    /\ r \in DOMAIN requests
    /\ requests[r].op = "deleteCustomer" /\ requests[r].pc = "countDocuments"
    /\ LET q == requests[r]
       IN  IF \E lid \in DOMAIN loans :
                 loans[lid].customer = q.c /\ loans[lid].status = "active"
           THEN SetRequest(r, Done(q, 400))
           ELSE SetRequest(r, [q EXCEPT !.pc = "deleteOne"])
    /\ UNCHANGED <<customers, loans, payments, nextPid, now, res, before>>

\* deleteCustomer up to "await customer.deleteOne()" and the response
deleteCustomerDeleteOne(r) ==
    /\ r \in DOMAIN requests
    /\ requests[r].op = "deleteCustomer" /\ requests[r].pc = "deleteOne"
    /\ customers' = [customers EXCEPT ![requests[r].c] = DeletedCustomer]
    /\ SetRequest(r, Done(requests[r], 200))
    /\ UNCHANGED <<loans, payments, nextPid, now, res, before>>

\* the loan of the first customer, as createLoan stores it
FirstLoan(terms) ==
    NewLoan(1, 1, FirstCustomer.customerId, 1, 10, terms, 0, TimeStep)

\* the collections after the first customer's loan has been created and a
\* payment of amount, dated 0, has been recorded at time 0
DatabasePaid(terms, amount) ==
    LET loan == FirstLoan(terms)
        customer == CustomerAfterLoan(FirstCustomer, 10)
    IN  [customers |-> <<CustomerAfterPayment(customer, loan, amount, 0, 0)>>,
         loans |-> <<LoanAfterPayment(loan, amount, 0, 0)>>,
         payments |-> [p \in {1} |->
                          PaymentDoc(loan, 1, amount, 0, generatePaymentId(1, 0))],
         nextPid |-> 2]

\* the collections after a createLoan and a deleteCustomer that ran together:
\* deleteCustomer counted the active loans before the loan was created, and
\* deleted the customer after createLoan had saved it
DatabaseOrphan ==
    [customers |-> <<DeletedCustomer>>, loans |-> <<FirstLoan(<<"daily", 100>>)>>,
     payments |-> << >>, nextPid |-> 1]

\* the collections after the first customer's loan has been created and
\* PUT /api/loans/:id has set its status to defaulted
DatabaseDefaulted ==
    [customers |-> <<CustomerAfterLoan(FirstCustomer, 10)>>,
     loans |-> <<Overwrite(loanSchema, FirstLoan(<<"daily", 100>>),
                           [status |-> "defaulted"])>>,
     payments |-> << >>, nextPid |-> 1]

\* the databases the requests of SpecApi start from: empty, one customer, a
\* loan, a loan with a payment, a loan closed by a payment, a loan whose
\* customer has been deleted, a defaulted loan
ApiDatabases ==
    { [customers |-> << >>, loans |-> << >>, payments |-> << >>, nextPid |-> 1],
      [customers |-> <<FirstCustomer>>, loans |-> << >>, payments |-> << >>,
       nextPid |-> 1] }
    \cup { [customers |-> <<CustomerAfterLoan(FirstCustomer, 10)>>,
            loans |-> <<FirstLoan(terms)>>, payments |-> << >>, nextPid |-> 1] :
           terms \in {<<"daily", 100>>, <<"monthly", 400>>} }
    \cup { DatabasePaid(<<"daily", 100>>, amount) : amount \in {5, 25} }
    \cup { DatabaseOrphan, DatabaseDefaulted }

InitApi ==
    /\ \E db \in ApiDatabases :
          /\ customers = db.customers
          /\ loans = db.loans
          /\ payments = db.payments
          /\ nextPid = db.nextPid
          /\ before = db
    /\ now = 0
    /\ res = Response("none", 0)
    /\ requests = << >>

NextApi ==
    \/ Tick
    \/ Arrivals
    \/ Steps
    \/ \E lid \in LoanIds, body \in LoanBodies : updateLoanFindLoan(lid, body)
    \/ \E r \in RequestIds : updateLoanUpdate(r)
    \/ \E pid \in PaymentIds, body \in PaymentBodies : updatePaymentFindPayment(pid, body)
    \/ \E r \in RequestIds : updatePaymentUpdate(r)
    \/ \E name \in Names, phone \in Phones : createCustomerFindPhone(name, phone)
    \/ \E r \in RequestIds : createCustomerFindLast(r)
    \/ \E r \in RequestIds : createCustomerCreate(r)
    \/ \E c \in Customers, body \in CustomerBodies : updateCustomerFindCustomer(c, body)
    \/ \E r \in RequestIds : updateCustomerUpdate(r)
    \/ \E c \in Customers : deleteCustomerFindCustomer(c)
    \/ \E r \in RequestIds : deleteCustomerCount(r)
    \/ \E r \in RequestIds : deleteCustomerDeleteOne(r)

\* MaxRequests requests to the routes that write, run together await by await,
\* from each of ApiDatabases
SpecApi == InitApi /\ [][NextApi]_vars

\* ------------------------------------------- createPayment with failing saves
\* createPayment wraps its body in one try/catch and uses no database
\* transaction.  When "await customer.save()" or "await loan.save()" rejects (the
\* database refuses or loses the write), the save writes nothing, the catch
\* answers 500 and the handler ends; what was written before stays written.
createPaymentSaveFails(r) ==
    /\ r \in DOMAIN requests
    /\ requests[r].op = "createPayment"
    /\ requests[r].pc \in {"saveCustomerClosed", "saveLoan", "saveCustomer"}
    /\ SetRequest(r, Done(requests[r], 500))
    /\ UNCHANGED <<customers, loans, payments, nextPid, now, res, before>>

NextFailures ==
    \/ NextSerial
    \/ \E r \in RequestIds : createPaymentSaveFails(r)

\* requests handled one after the other, the saves of createPayment may fail
SpecFailures == Init /\ [][NextFailures]_vars

\* ------------------------------------------------- the helpers on their own
\* A helper applied to arguments it is given; res holds the call and its result.
Returned(op, args, value) == [op |-> op, code |-> 0, args |-> args, value |-> value]

\* the numbers an identifier is generated from
IdNumbers == {0, 2, 3, 7, 42, 1234}

\* the loanType texts: the interest types and the type codes createLoan passes
LoanTypes == { <<"d", "a", "i", "l", "y">>, <<"m", "o", "n", "t", "h", "l", "y">>,
               <<"D">>, <<"M">> }

generateLoanIdCall(sequenceNumber, cusNumber, customerLoanNumber, loanType) ==
    /\ res' = Returned("generateLoanId",
                       <<sequenceNumber, cusNumber, customerLoanNumber, loanType>>,
                       generateLoanId(sequenceNumber, cusNumber, customerLoanNumber,
                                      loanType))
    /\ UNCHANGED <<customers, loans, payments, nextPid, now, requests, before>>

generateCustomerIdCall(sequenceNumber) ==
    /\ res' = Returned("generateCustomerId", <<sequenceNumber>>,
                       generateCustomerId(sequenceNumber))
    /\ UNCHANGED <<customers, loans, payments, nextPid, now, requests, before>>

\* customerId texts: as generateCustomerId writes them, and as a PUT on the
\* customer can leave them
CustomerIdTexts ==
    { generateCustomerId(42), generateCustomerId(0),
      <<"C", "U", "S", "-", "+", "7">>, <<"C", "U", "S", "-", " ", "4", "2">>,
      <<"C", "U", "S", "-", "\t", "4", "2">>,
      <<"C", "U", "S", "-", "\\v", "4", "2">>,
      <<"C", "U", "S", "-", "\\u00A0", "\n", "8">>,
      <<"C", "U", "S", "-", "0", "x", "1", "0">>,
      <<"C", "U", "S", "-", "0", "X", "f", "F", "g">>,
      <<"C", "U", "S", "-", "0", "x">>,
      <<"C", "U", "S", "-", "-", "3">>, <<"C", "U", "S", "-", "7", "x">>,
      <<"C", "U", "S", "-", "x", "7">>, <<"C", "U", "S">> }

\* createLoan: parseInt(customerId.split('-')[1] || '1', 10) || 1
customerNumberCall(customerId) ==
    /\ res' = Returned("customerNumber", <<customerId>>, customerNumber(customerId))
    /\ UNCHANGED <<customers, loans, payments, nextPid, now, requests, before>>

\* createCustomer: generateCustomerId(parseInt(customerId.split('-')[1]) + 1)
customerIdAfterCall(customerId) ==
    /\ res' = Returned("customerIdAfter", <<customerId>>, customerIdAfter(customerId))
    /\ UNCHANGED <<customers, loans, payments, nextPid, now, requests, before>>

\* s.trim(), the setter of the schemas
trimCall(text) ==
    /\ res' = Returned("trim", <<text>>, trim(text))
    /\ UNCHANGED <<customers, loans, payments, nextPid, now, requests, before>>

\* texts with white space around them
TrimTexts ==
    { <<" ", "a", " ", "b", "\t">>, <<"\\v", "\\uFEFF", "7">>, <<"\n", " ">>, << >>,
      <<"a", "\\u2028">> }

\* generatePaymentId called at a time of the clock
generatePaymentIdCall(sequenceNumber, t) ==
    /\ res' = Returned("generatePaymentId", <<sequenceNumber, t>>,
                       generatePaymentId(sequenceNumber, t))
    /\ UNCHANGED <<customers, loans, payments, nextPid, now, requests, before>>

NextIds ==
    \/ \E n \in IdNumbers, c \in IdNumbers, k \in IdNumbers, type \in LoanTypes :
          generateLoanIdCall(n, c, k, type)
    \/ \E n \in IdNumbers : generateCustomerIdCall(n)
    \/ \E customerId \in CustomerIdTexts : customerNumberCall(customerId)
    \/ \E customerId \in CustomerIdTexts : customerIdAfterCall(customerId)
    \/ \E text \in TrimTexts : trimCall(text)
    \/ \E n \in IdNumbers, t \in Times \cup {40 * HoursPerDay, 364 * HoursPerDay} :
          generatePaymentIdCall(n, t)

\* the identifier helpers applied to drawn arguments
SpecIds == Init /\ [][NextIds]_vars

\* ------------------------------------------ calculateInterest on its own
\* POST /api/loans/:id/calculate applies calculateInterest to a stored loan and
\* an as-of date of the caller.  The loans and dates drawn keep the arithmetic
\* exact (ExactInterestDrawn): dates are multiples of 3.75 days, an eighth of
\* a 30-day month.
AsOfDates == {k * (TimeStep \div 2) : k \in 0..MaxAsOf}
InterestPrincipals == {0, 10, 20}
InterestTerms == {<<"daily", 10>>, <<"daily", 100>>, <<"monthly", 400>>, <<"monthly", 800>>}
InterestDisbursementDates == {0, TimeStep \div 2}
InterestDueDates == {TimeStep, 3 * (TimeStep \div 2)}

\* one loan has been created, with terms drawn from the sets above
InitInterest ==
    /\ \E c \in Customers, p \in InterestPrincipals, terms \in InterestTerms,
          d \in InterestDisbursementDates, due \in InterestDueDates :
          /\ c = 1
          /\ loans = <<NewLoan(1, c, FirstCustomer.customerId, 1, p, terms, d, due)>>
          /\ customers = <<CustomerAfterLoan(FirstCustomer, p)>>
    /\ payments = << >>
    /\ nextPid = 1
    /\ now = 0
    /\ res = Response("createLoan", 201)
    /\ requests = << >>
    /\ before = Database

\* POST /api/loans/:id/calculate
calculateLoanDetails(lid, asOfDate) ==
    /\ lid \in DOMAIN loans        \* Loan.findById finds the loan
    /\ LET loan == loans[lid]
           interest == calculateInterest(loan, asOfDate)
       IN  res' = [Returned("calculateLoanDetails", <<lid, asOfDate>>,
                     [calculatedInterest |-> interest,
                      daysSinceDisbursement |->
                          (asOfDate - loan.disbursementDate) \div HoursPerDay,
                      totalOutstanding |-> loan.outstandingPrincipal + interest])
                   EXCEPT !.code = 200]
    /\ UNCHANGED <<customers, loans, payments, nextPid, now, requests, before>>

NextInterest == \E lid \in LoanIds, asOfDate \in AsOfDates : calculateLoanDetails(lid, asOfDate)

\* interest calculations on a drawn loan
SpecInterest == InitInterest /\ [][NextInterest]_vars

\* every interest computation of SpecInterest is exact
ExactInterestDrawn ==
    \A lid \in DOMAIN loans : \A t \in AsOfDates : ExactInterest(loans[lid], t)
\* ------------------------------------------------------------------ claims
\* A request handled alone: it is the only one received since the collections
\* were as before records them, and it has been answered.  In SpecSerial and
\* SpecFailures no other handler ran meanwhile and the clock stood still.
Handled(op) ==
    /\ Len(requests) = 1
    /\ requests[1].op = op
    /\ requests[1].pc = "done"

\* the payments recorded against a loan
PaymentsOf(lid) == {p \in DOMAIN payments : payments[p].loan = lid}

RECURSIVE SumPrincipalPaid(_)
SumPrincipalPaid(S) ==
    IF S = {} THEN 0
    ELSE LET p == CHOOSE q \in S : TRUE
         IN  payments[p].principalPaid + SumPrincipalPaid(S \ {p})

\* a createPayment handled alone was accepted: it has added the Payment
\* document with the _id before.nextPid
PaymentRecorded ==
    /\ Handled("createPayment")
    /\ requests[1].code = 201

\* C1: every loan's stored outstandingPrincipal is >= 0 and equals
\* principalAmount minus the sum of principalPaid over the payments recorded
\* against the loan (requests handled one at a time, none under way).
C1_PrincipalLedger ==
    Answered =>
        \A lid \in DOMAIN loans :
            /\ loans[lid].outstandingPrincipal >= 0
            /\ loans[lid].outstandingPrincipal =
                   loans[lid].principalAmount - SumPrincipalPaid(PaymentsOf(lid))

\* C2: the payment recorded by an accepted createPayment has
\* interestPaid = min(amount, max(0, owed)) and
\* principalPaid = min(amount - interestPaid, outstandingPrincipal), with
\* owed = accruedInterest(paymentDate) - totalInterestEarned; both parts are
\* >= 0 and together at most amount.
C2_InterestFirst ==
    PaymentRecorded =>
        LET p == payments[before.nextPid]
            a == p.amount
            loan == before.loans[p.loan]
            owed == calculateInterest(loan, p.paymentDate) - loan.totalInterestEarned
        IN  /\ p.interestPaid = Min(a, Max(0, owed))
            /\ p.principalPaid = Min(a - p.interestPaid, loan.outstandingPrincipal)
            /\ p.interestPaid >= 0
            /\ p.principalPaid >= 0
            /\ p.interestPaid + p.principalPaid <= a

\* the loan of the example in the claim: principal 1000 at 2% a day, 10 days on
ExampleLoan == [ interestType |-> "daily", interestRate |-> 2,
                 outstandingPrincipal |-> 1000, totalInterestEarned |-> 0,
                 disbursementDate |-> 0, dueDate |-> 30 * HoursPerDay ]

\* the example's allocations, as the code computes them
C2_Example ==
    /\ calculateInterest(ExampleLoan, 10 * HoursPerDay) = 200
    /\ InterestPaid(ExampleLoan, 150, 10 * HoursPerDay) = 150
    /\ PrincipalPaid(ExampleLoan, 150, 10 * HoursPerDay) = 0
    /\ InterestPaid(ExampleLoan, 250, 10 * HoursPerDay) = 200
    /\ PrincipalPaid(ExampleLoan, 250, 10 * HoursPerDay) = 50

\* C3: an accepted createPayment followed by deletePayment of that payment
\* leaves the loan's outstandingPrincipal, totalAmountPaid, totalInterestEarned
\* and totalPayments as they were before the payment, and a loan the payment
\* closed is active again.
C3_RoundTrip ==
    ( /\ Len(requests) = 2
      /\ Answered
      /\ requests[1].op = "createPayment" /\ requests[1].code = 201
      /\ requests[2].op = "deletePayment" /\ requests[2].code = 200
      /\ requests[2].pid = before.nextPid ) =>
        LET lid == requests[1].lid
            loan == before.loans[lid]
            back == loans[lid]
        IN  /\ back.outstandingPrincipal = loan.outstandingPrincipal
            /\ back.totalAmountPaid = loan.totalAmountPaid
            /\ back.totalInterestEarned = loan.totalInterestEarned
            /\ back.totalPayments = loan.totalPayments
            /\ back.status = "active"

\* C4: an accepted createPayment on an active loan that leaves the loan's
\* outstandingPrincipal and outstandingInterest both <= 0 sets its status to
\* closed and its closedDate to the payment's paymentDate, and takes one off
\* the owning customer's activeLoans.
C4_ClosesWhenPaid ==
    PaymentRecorded =>
        LET lid == requests[1].lid
            c == before.loans[lid].customer
        IN  ( /\ before.loans[lid].status = "active"
              /\ loans[lid].outstandingPrincipal <= 0
              /\ loans[lid].outstandingInterest <= 0 ) =>
                /\ loans[lid].status = "closed"
                /\ loans[lid].closedDate = requests[1].paymentDate
                /\ customers[c].activeLoans = before.customers[c].activeLoans - 1

\* a backdated payment has just closed a loan
C4_Witness ==
    /\ PaymentRecorded
    /\ LET lid == requests[1].lid
       IN  /\ before.loans[lid].status = "active"
           /\ loans[lid].status = "closed"
           /\ loans[lid].outstandingPrincipal <= 0
           /\ loans[lid].outstandingInterest <= 0
           /\ loans[lid].closedDate = requests[1].paymentDate
           /\ loans[lid].closedDate # now
           /\ customers[loans[lid].customer].activeLoans = 0

\* C5: closeLoan on a loan that is already closed, or whose
\* outstandingPrincipal is > 0, is rejected and changes neither the loan nor
\* the customer.
C5_CloseRejected ==
    Handled("closeLoan") =>
        LET loan == before.loans[requests[1].lid]
        IN  (loan.status = "closed" \/ loan.outstandingPrincipal > 0) =>
               /\ requests[1].code = 400
               /\ Database = before

\* closeLoan was just rejected for outstanding principal, after a payment
C5_Witness ==
    /\ Handled("closeLoan")
    /\ requests[1].code = 400
    /\ LET loan == loans[requests[1].lid]
       IN  /\ loan.status = "active"
           /\ loan.outstandingPrincipal > 0
           /\ loan.totalPayments > 0

\* C6: createPayment against a closed loan is rejected, records no payment
\* and changes neither the loan nor the customer.
C6_ClosedLoanRefuses ==
    Handled("createPayment") =>
        (before.loans[requests[1].lid].status = "closed" =>
            /\ requests[1].code = 400
            /\ Database = before)

\* a payment against a closed loan was just refused
C6_Witness ==
    /\ Handled("createPayment")
    /\ requests[1].code = 400
    /\ loans[requests[1].lid].status = "closed"

\* C7: createPayment with amount <= 0 (zero or negative) is rejected, records
\* no payment and leaves the loan unchanged.
C7_NonPositiveRejected ==
    Handled("createPayment") =>
        (requests[1].amount <= 0 =>
            /\ requests[1].code \in {400, 500}
            /\ loans = before.loans
            /\ payments = before.payments
            /\ nextPid = before.nextPid)

\* the negative half of C7: createPayment with amount < 0 is rejected (400
\* for a closed loan, else the validation error of Payment.create, 500),
\* records no payment and leaves the loan and the customer unchanged.
C7_NegativeRejected ==
    Handled("createPayment") =>
        (requests[1].amount < 0 =>
            /\ requests[1].code =
                  IF before.loans[requests[1].lid].status = "closed" THEN 400 ELSE 500
            /\ Database = before)

\* Payment.create has just thrown for a negative amount on an active loan, and
\* no payment exists that could clash
C7_Witness ==
    /\ Handled("createPayment")
    /\ requests[1].code = 500
    /\ requests[1].amount < 0
    /\ nextPid = 1
    /\ loans[requests[1].lid].status = "active"

\* C8: a loan is closed only with outstandingPrincipal <= 0 and
\* outstandingInterest <= 0, the stored one and the one accrued and unpaid at
\* the time of the transition.
C8_ClosedOnlyWhenPaid ==
    (Len(requests) = 1 /\ requests[1].pc = "done") =>
        \A lid \in DOMAIN before.loans :
            (before.loans[lid].status # "closed" /\ loans[lid].status = "closed") =>
                /\ loans[lid].outstandingPrincipal <= 0
                /\ loans[lid].outstandingInterest <= 0
                /\ calculateInterest(loans[lid], now)
                       - loans[lid].totalInterestEarned <= 0

\* closeLoan has just closed a loan
C8_Witness ==
    /\ Handled("closeLoan")
    /\ requests[1].code = 200
    /\ loans[requests[1].lid].status = "closed"
    /\ loans[requests[1].lid].closedDate = now

\* C9: an accepted createPayment adds amount to the owning customer's
\* totalAmountRepaid, once, whether or not it closes the loan.
C9_RepaidOnce ==
    PaymentRecorded =>
        LET p == payments[before.nextPid]
        IN  customers[p.customer].totalAmountRepaid =
                before.customers[p.customer].totalAmountRepaid + p.amount

\* a payment of a positive amount has just closed a loan
C9_Witness ==
    /\ PaymentRecorded
    /\ LET p == payments[before.nextPid]
       IN  /\ p.amount > 0
           /\ before.loans[p.loan].status = "active"
           /\ loans[p.loan].status = "closed"
           /\ customers[p.customer].totalAmountRepaid >= p.amount

\* C10: no customer's activeLoans is negative.
C10_ActiveLoansNonNegative ==
    \A c \in DOMAIN customers : customers[c].activeLoans >= 0

\* a customer whose loans are all closed
C10_Witness ==
    \E c \in DOMAIN customers :
        /\ customers[c].totalLoans > 0
        /\ customers[c].activeLoans = 0
        /\ \A lid \in DOMAIN loans : loans[lid].status = "closed"

\* C11: for a loan with fixed outstandingPrincipal and rate, the accrued
\* interest never decreases as asOfDate advances up to dueDate, and from dueDate
\* on it equals the interest accrued at dueDate.
C11_MonotoneThenConstant ==
    \A lid \in DOMAIN loans : \A t1 \in Times : \A t2 \in Times :
        LET loan == loans[lid]
        IN  /\ (t1 <= t2 /\ t2 <= loan.dueDate) =>
                   calculateInterest(loan, t1) <= calculateInterest(loan, t2)
            /\ t1 >= loan.dueDate =>
                   calculateInterest(loan, t1) = calculateInterest(loan, loan.dueDate)

\* the same, for the loans whose outstandingPrincipal is not negative
C11_MonotoneNonNegative ==
    \A lid \in DOMAIN loans : \A t1 \in Times : \A t2 \in Times :
        LET loan == loans[lid]
        IN  loan.outstandingPrincipal >= 0 =>
              /\ (t1 <= t2 /\ t2 <= loan.dueDate) =>
                     calculateInterest(loan, t1) <= calculateInterest(loan, t2)
              /\ t1 >= loan.dueDate =>
                     calculateInterest(loan, t1) = calculateInterest(loan, loan.dueDate)

\* C12: no two loans ever receive the same sequenceNumber, however the steps
\* of createLoan requests interleave.
C12_SequenceNumbersDistinct ==
    \A i \in DOMAIN loans : \A j \in DOMAIN loans :
        i # j => loans[i].sequenceNumber # loans[j].sequenceNumber

\* C13: no two payments created on the same calendar day receive the same
\* day-local sequence number, hence the same paymentId: the paymentId that
\* createPayment hands to a payment created now, whatever its paymentDate, is
\* the paymentId of no payment created before.
C13_SequenceFresh ==
    Answered =>
        \A p \in DOMAIN payments : \A d \in PaymentDates :
            generatePaymentId(PaymentsToday(d) + 1, now) # payments[p].paymentId

\* the unique index on paymentId: the payments that exist have distinct ids
C13_StoredIdsDistinct ==
    \A p \in DOMAIN payments : \A q \in DOMAIN payments :
        p # q => payments[p].paymentId # payments[q].paymentId


\* the createPayment requests against loan lid that were answered 201
PaidRequests(lid) ==
    {r \in DOMAIN requests : /\ requests[r].op = "createPayment"
                             /\ requests[r].lid = lid
                             /\ requests[r].pc = "done"
                             /\ requests[r].code = 201}

RECURSIVE SumAmountOf(_)
SumAmountOf(R) ==
    IF R = {} THEN 0
    ELSE LET r == CHOOSE x \in R : TRUE
         IN  requests[r].amount + SumAmountOf(R \ {r})

\* C14: concurrent createPayment requests against one loan are serialized: once
\* two of them have been answered 201, no other request having been received
\* since the loan was as before records it, the loan's totalAmountPaid has
\* grown by the sum of their amounts and its totalPayments by their number.
C14_NoLostUpdate ==
    \A lid \in DOMAIN before.loans :
        (Cardinality(PaidRequests(lid)) = Len(requests) /\ Len(requests) >= 2) =>
            /\ loans[lid].totalAmountPaid =
                   before.loans[lid].totalAmountPaid + SumAmountOf(PaidRequests(lid))
            /\ loans[lid].totalPayments =
                   before.loans[lid].totalPayments + Cardinality(PaidRequests(lid))

\* 10 to the power k
RECURSIVE TenTo(_)
TenTo(k) == IF k = 0 THEN 1 ELSE 10 * TenTo(k - 1)

\* the decimal numeral of n >= 0 written in exactly width digits (n < 10^width)
Numeral(n, width) ==
    [i \in 1..width |-> DecimalDigits[((n \div TenTo(width - i)) % 10) + 1]]

\* n zero-padded to width digits: wider when n does not fit
RECURSIVE ZeroPadded(_, _)
ZeroPadded(n, width) ==
    IF n < TenTo(width) THEN Numeral(n, width) ELSE ZeroPadded(n, width + 1)

\* the single uppercase letter of an interest type
TypeLetter(type) ==
    IF type = <<"d", "a", "i", "l", "y">> THEN <<"D">>
    ELSE IF type = <<"m", "o", "n", "t", "h", "l", "y">> THEN <<"M">>
    ELSE type

\* the format "00-{seq}-{customerNumber}-{loanNo}-{T}"
LoanIdFormat(seq, cusNumber, loanNo, letter) ==
    <<"0", "0", "-">> \o ZeroPadded(seq, 3) \o <<"-">> \o ZeroPadded(cusNumber, 3)
        \o <<"-">> \o ZeroPadded(loanNo, 2) \o <<"-">> \o letter

\* C15: generateLoanId(seq, customerNumber, loanNo, type) returns
\* "00-{seq padded to 3}-{customerNumber padded to 3}-{loanNo padded to 2}-{T}",
\* T the single uppercase letter D for daily and M for monthly, so that
\* generateLoanId(3, 7, 2, 'daily') = "00-003-007-02-D"; and
\* generateCustomerId(n) is "CUS-" and n padded to 5: generateCustomerId(42) =
\* "CUS-00042".
C15_IdFormats ==
    /\ res.op = "generateLoanId" =>
          /\ res.value = LoanIdFormat(res.args[1], res.args[2], res.args[3],
                                      TypeLetter(res.args[4]))
          /\ res.args = <<3, 7, 2, <<"d", "a", "i", "l", "y">> >> =>
                res.value = <<"0", "0", "-", "0", "0", "3", "-", "0", "0", "7", "-",
                              "0", "2", "-", "D">>
    /\ res.op = "generateCustomerId" =>
          /\ res.value = <<"C", "U", "S", "-">> \o ZeroPadded(res.args[1], 5)
          /\ res.args = <<42>> =>
                res.value = <<"C", "U", "S", "-", "0", "0", "0", "4", "2">>

\* the same for the calls createLoan makes, which pass the type code D or M, and
\* for generateCustomerId
C15_IdFormatsOfCodes ==
    /\ (res.op = "generateLoanId" /\ Len(res.args[4]) = 1) =>
          res.value = LoanIdFormat(res.args[1], res.args[2], res.args[3], res.args[4])
    /\ res.op = "generateCustomerId" =>
          /\ res.value = <<"C", "U", "S", "-">> \o ZeroPadded(res.args[1], 5)
          /\ res.args = <<42>> =>
                res.value = <<"C", "U", "S", "-", "0", "0", "0", "4", "2">>

\* C16: for a daily loan the accrued interest as of asOfDate is
\* outstandingPrincipal * rate * floor((min(asOfDate, dueDate) - disbursementDate)
\* / one day) / 100, it is 0 whenever min(asOfDate, dueDate) <= disbursementDate,
\* and nothing accrues for the time past dueDate.
C16_DailyInterest ==
    (res.op = "calculateLoanDetails" /\ loans[res.args[1]].interestType = "daily") =>
        LET loan     == loans[res.args[1]]
            asOfDate == res.args[2]
            end      == Min(asOfDate, loan.dueDate)
            days     == (end - loan.disbursementDate) \div HoursPerDay
            interest == res.value.calculatedInterest
        IN  /\ end > loan.disbursementDate =>
                  PercentBase * interest
                      = loan.outstandingPrincipal * loan.interestRate * days
            /\ end <= loan.disbursementDate => interest = 0
            /\ asOfDate >= loan.dueDate =>
                  interest = calculateInterest(loan, loan.dueDate)

\* a daily loan asked for its interest after dueDate, the time to dueDate not
\* being a whole number of days, the interest not 0
C16_Witness ==
    /\ res.op = "calculateLoanDetails"
    /\ loans[res.args[1]].interestType = "daily"
    /\ res.args[2] > loans[res.args[1]].dueDate
    /\ (loans[res.args[1]].dueDate - loans[res.args[1]].disbursementDate)
           % HoursPerDay # 0
    /\ res.value.calculatedInterest > 0


\* C17: the payment recorded by an accepted createPayment snapshots the loan
\* as that createPayment stores it: its outstandingPrincipalAfter is the loan's
\* stored outstandingPrincipal and its outstandingInterestAfter the loan's
\* stored outstandingInterest.
C17_SnapshotMatchesLoan ==
    PaymentRecorded =>
        LET p == payments[before.nextPid]
        IN  /\ p.outstandingPrincipalAfter = loans[p.loan].outstandingPrincipal
            /\ p.outstandingInterestAfter = loans[p.loan].outstandingInterest

\* the principal half of C17
C17_PrincipalSnapshot ==
    PaymentRecorded =>
        payments[before.nextPid].outstandingPrincipalAfter
            = loans[payments[before.nextPid].loan].outstandingPrincipal

\* the interest half of C17
C17_InterestSnapshot ==
    PaymentRecorded =>
        payments[before.nextPid].outstandingInterestAfter
            = loans[payments[before.nextPid].loan].outstandingInterest

\* the step is one of the handler of a request to one of the routes ops
StepOf(ops) ==
    \E r \in DOMAIN requests' :
        /\ requests'[r].op \in ops
        /\ (r \in DOMAIN requests => requests'[r] # requests[r])

\* C18: a loan whose status is defaulted or written-off keeps that status
\* through every step of createPayment, closeLoan and deletePayment.
C18_TerminalStatusKept ==
    [][\A lid \in DOMAIN loans :
          (/\ loans[lid].status \in {"defaulted", "written-off"}
           /\ StepOf({"createPayment", "closeLoan", "deletePayment"}))
          => loans'[lid].status = loans[lid].status]_vars

\* the part of C18 about deletePayment
C18_KeptThroughDelete ==
    [][\A lid \in DOMAIN loans :
          (/\ loans[lid].status \in {"defaulted", "written-off"}
           /\ StepOf({"deletePayment"}))
          => loans'[lid].status = loans[lid].status]_vars

\* C19: after a successful createLoan the new loan has status active,
\* outstandingPrincipal equal to its principalAmount and the loanTypeCode of its
\* interestType (D for daily, M otherwise), and its customer's totalLoans and
\* activeLoans have each grown by 1 and totalAmountBorrowed by principalAmount.
C19_LoanCreated ==
    (Handled("createLoan") /\ requests[1].code = 201) =>
        /\ Len(loans) = Len(before.loans) + 1
        /\ LET loan == loans[Len(loans)]
               c    == requests[1].c
           IN  /\ loan.customer = c
               /\ loan.principalAmount = requests[1].principalAmount
               /\ loan.interestType = requests[1].terms[1]
               /\ loan.status = "active"
               /\ loan.outstandingPrincipal = loan.principalAmount
               /\ loan.interestType = "daily" => loan.loanTypeCode = "D"
               /\ loan.interestType = "monthly" => loan.loanTypeCode = "M"
               /\ customers[c].totalLoans = before.customers[c].totalLoans + 1
               /\ customers[c].activeLoans = before.customers[c].activeLoans + 1
               /\ customers[c].totalAmountBorrowed
                      = before.customers[c].totalAmountBorrowed + loan.principalAmount
               /\ \A i \in DOMAIN before.loans : loans[i] = before.loans[i]

\* createLoan has just answered 201 for a daily loan of a positive principal
C19_Witness ==
    /\ Handled("createLoan")
    /\ requests[1].code = 201
    /\ loans[Len(loans)].interestType = "daily"
    /\ loans[Len(loans)].principalAmount > 0
    /\ customers[loans[Len(loans)].customer].totalLoans = Len(loans)

\* the fields of a loan that deletePayment may change
ReversedFields == {"totalAmountPaid", "totalInterestEarned", "outstandingPrincipal",
                   "totalPayments", "status", "closedDate"}

\* C20: deletePayment is an arithmetic reversal.  On the payment's loan it
\* subtracts amount from totalAmountPaid and interestPaid from
\* totalInterestEarned, adds principalPaid to outstandingPrincipal and lowers
\* totalPayments by 1 (not below 0); a closed loan becomes active with no
\* closedDate and its customer's activeLoans grows by 1, otherwise status,
\* closedDate and the customer stay as they are.  Every other field of the loan
\* (outstandingInterest, profitLoss, lastPaymentDate, the terms) is unchanged,
\* and so are the other loans and the customer's other counters; the payment
\* is gone and the other payments are as they were.
C20_DeleteReverses ==
    Handled("deletePayment") =>
        LET pid   == requests[1].pid
            p     == before.payments[pid]
            lid   == p.loan
            loan  == before.loans[lid]
            after == loans[lid]
            c     == loan.customer
        IN  /\ requests[1].code = 200
            /\ after.totalAmountPaid = loan.totalAmountPaid - p.amount
            /\ after.totalInterestEarned = loan.totalInterestEarned - p.interestPaid
            /\ after.outstandingPrincipal = loan.outstandingPrincipal + p.principalPaid
            /\ after.totalPayments = Max(0, loan.totalPayments - 1)
            /\ IF loan.status = "closed"
               THEN /\ after.status = "active"
                    /\ after.closedDate = NoDate
                    /\ customers[c] =
                           [before.customers[c] EXCEPT !.activeLoans = @ + 1]
               ELSE /\ after.status = loan.status
                    /\ after.closedDate = loan.closedDate
                    /\ customers[c] = before.customers[c]
            /\ \A f \in DOMAIN loan \ ReversedFields : after[f] = loan[f]
            /\ \A i \in DOMAIN loans : i # lid => loans[i] = before.loans[i]
            /\ \A k \in DOMAIN customers : k # c => customers[k] = before.customers[k]
            /\ DOMAIN payments = DOMAIN before.payments \ {pid}
            /\ \A k \in DOMAIN payments : payments[k] = before.payments[k]

\* deletePayment has reopened a loan closed by its only payment: no payment is
\* left, the loan is active again and still carries the date of that payment
C20_Witness ==
    /\ Handled("deletePayment")
    /\ requests[1].code = 200
    /\ LET lid == requests[1].lid
       IN  /\ before.loans[lid].status = "closed"
           /\ loans[lid].status = "active"
           /\ loans[lid].closedDate = NoDate
           /\ loans[lid].totalPayments = 0
           /\ loans[lid].lastPaymentDate # NoDate
           /\ PaymentsOf(lid) = {}
           /\ customers[loans[lid].customer].activeLoans = 1

\* the loans of customer c whose status is active
ActiveLoansOf(c) ==
    {lid \in DOMAIN loans : loans[lid].customer = c /\ loans[lid].status = "active"}

\* C21: with requests handled one at a time and no status set from outside,
\* each customer's activeLoans counter is, between requests, the number of that
\* customer's loans whose status is active.
C21_ActiveLoansCounted ==
    Answered =>
        \A c \in DOMAIN customers :
            customers[c].activeLoans = Cardinality(ActiveLoansOf(c))

\* a customer whose loan was closed and then reopened by deletePayment: the
\* counter went 1, 0, 1
C21_Witness ==
    /\ Handled("deletePayment")
    /\ LET lid == requests[1].lid
       IN  /\ before.loans[lid].status = "closed"
           /\ before.customers[loans[lid].customer].activeLoans = 0
           /\ loans[lid].status = "active"
           /\ customers[loans[lid].customer].activeLoans = 1
           /\ customers[loans[lid].customer].totalAmountRepaid > 0

RECURSIVE SumAmount(_)
SumAmount(S) ==
    IF S = {} THEN 0
    ELSE LET p == CHOOSE x \in S : TRUE
         IN  payments[p].amount + SumAmount(S \ {p})

RECURSIVE SumInterestPaid(_)
SumInterestPaid(S) ==
    IF S = {} THEN 0
    ELSE LET p == CHOOSE x \in S : TRUE
         IN  payments[p].interestPaid + SumInterestPaid(S \ {p})

\* C22: with createPayment and deletePayment handled one at a time, a loan's
\* totalAmountPaid is, between requests, the sum of amount, its
\* totalInterestEarned the sum of interestPaid and its totalPayments the number
\* of the payment records that exist for the loan.
C22_TotalsMatchRecords ==
    Answered =>
        \A lid \in DOMAIN loans :
            /\ loans[lid].totalAmountPaid = SumAmount(PaymentsOf(lid))
            /\ loans[lid].totalInterestEarned = SumInterestPaid(PaymentsOf(lid))
            /\ loans[lid].totalPayments = Cardinality(PaymentsOf(lid))

\* a payment has been deleted and a payment that paid interest remains
C22_Witness ==
    /\ Handled("deletePayment")
    /\ requests[1].code = 200
    /\ \E p \in DOMAIN payments :
          /\ payments[p].interestPaid > 0
          /\ payments[p].amount > 0
          /\ loans[payments[p].loan].totalInterestEarned > 0

\* the payment records of the loans of customer c
PaymentsOfCustomer(c) == {p \in DOMAIN payments : payments[p].customer = c}

\* C23: over any run, a customer's totalAmountRepaid is the sum of amount over
\* all the payments ever created for the customer's loans: once every request
\* has been answered and as long as no payment record has been deleted, it is
\* the sum of amount over the customer's payment records.
C23_RepaidIsSumOfPayments ==
    (Answered /\ Cardinality(DOMAIN payments) = nextPid - 1) =>
        \A c \in DOMAIN customers :
            customers[c].totalAmountRepaid = SumAmount(PaymentsOfCustomer(c))

\* C24: a createPayment that ended in an error response has left nothing: the
\* loan is as it was when the request arrived, every payment record of the loan
\* is reflected in the loan's totalAmountPaid and totalPayments, and the
\* customer's totalAmountRepaid is the sum of amount over the customer's payment
\* records.  (Requests are handled one after the other and no payment has been
\* deleted, so the error response is the last change.)
C24_AllOrNothing ==
    ( /\ Handled("createPayment")
      /\ requests[1].code = 500
      /\ Cardinality(DOMAIN payments) = nextPid - 1 ) =>
        LET lid == requests[1].lid
            c == before.loans[lid].customer
        IN  /\ loans[lid] = before.loans[lid]
            /\ loans[lid].totalAmountPaid = SumAmount(PaymentsOf(lid))
            /\ loans[lid].totalPayments = Cardinality(PaymentsOf(lid))
            /\ customers[c].totalAmountRepaid = SumAmount(PaymentsOfCustomer(c))

====
